---- MODULE Spec2Model ----
(***************************************************************************)
(* A model of the lyubitori2 scraper: the image codec adapter              *)
(* (save_image_from_data_url), the fetch bridge (fetch_image), the page    *)
(* extractor and per-item retry loop (download_visible_images), the CLI    *)
(* engine (scroll_and_download) and the HTTP task runner                   *)
(* (run_download_task, cancel_task, download, refresh).                    *)
(***************************************************************************)
EXTENDS Integers, Sequences, FiniteSets, TLC

(***************************************************************************)
(* Bounds of the model.                                                    *)
(***************************************************************************)
MaxScroll == 2        \* largest max_scroll a caller passes
MaxErr == 2           \* largest max_error_count the CLI engine is run with
MaxItems == 2         \* most <img alt="Image"> elements on one rendered page
MaxPayload == 2       \* largest decoded payload, len(img.tobytes())
MaxCalls == 3         \* most direct calls of save_image_from_data_url
MaxTasks == 1         \* most tasks POST /download and POST /refresh create
MaxAppItems == 1      \* longest DOM snapshot a service thread sees
MaxThreads == 2       \* most tasks of the concurrent service runs
MaxCookies == 2       \* most cookie records the browser or the cookie file holds
MaxDebugSteps == 2    \* most capture_step calls made with debug mode on
MaxCliScroll == 1     \* largest --max-scroll of a CLI download run
MaxNameCalls == 3     \* most direct calls of get_image_name
MaxVerify == 2        \* largest MAX_ERROR_COUNT TwitterAuth is configured with
MaxRounds == 3        \* max_scroll of the runs whose rounds are logged

(***************************************************************************)
(* Program constants.                                                      *)
(***************************************************************************)
DefaultMaxErrorCount == 3   \* download_visible_images(max_error_count=3)
DefaultRoundErrorCount == 3 \* scroll_and_download(max_error_count=3)

(***************************************************************************)
(* Values.                                                                 *)
(***************************************************************************)
\* PIL formats the decoder recognises; img.format of a decoded image.
ImageFormats == {"PNG", "JPEG"}

\* A decoded image: its format and the length of its pixel buffer.
Images == [format : ImageFormats, payload : 1..MaxPayload]

\* What the bytes after base64 decoding can be: an image file, or bytes
\* that Image.open rejects.
NotAnImage == [format |-> "TXT", payload |-> 0]
Blobs == Images \cup {NotAnImage}

\* A data URL as fetch_image returns it: "<header>,<base64 of blob>", or
\* a string without a comma (FileReader's "data:" for an empty blob).
NoCommaUrl == [comma |-> FALSE, b64 |-> NotAnImage]
DataUrls == [comma : {TRUE}, b64 : Blobs] \cup {NoCommaUrl}

\* A file of the output directory that PIL cannot open.
Unreadable == [format |-> "BAD", payload |-> 0]

\* f"{...}.{img.format.lower()}": the extension of a decoded format.
Lower(format) ==
    CASE format = "PNG" -> "png"
      [] format = "JPEG" -> "jpeg"
      [] OTHER -> "bin"

\* Media URLs https://pbs.twimg.com/media/<id>?format=<format>&name=<name>.
Url(id, format, name) == [id |-> id, format |-> format, name |-> name]
UrlA == Url("A", "jpg", "small")
UrlB == Url("B", "png", "large")
UrlT == Url("T", "jpg", "240x240")
NoUrl == Url("", "", "")
Urls == {UrlA, UrlB, UrlT}

\* The element four levels above an <img>: kind "href" with the parts of
\* urlparse(href).path.split("/") ("/alice/status/42/photo/1" gives an
\* empty first part), "none" when it has no href, "raises" when
\* find_element or get_attribute raises.
Link(kind, path) == [kind |-> kind, path |-> path]
StatusLink == Link("href", <<"", "alice", "status", "42", "photo", "1">>)
NoLink == Link("none", <<>>)

\* An <img alt="Image"> element: its src attribute (absent when has_src
\* is FALSE) and its ancestor link.
Element(has_src, src, link) == [has_src |-> has_src, src |-> src, link |-> link]
ElementPool ==
    { Element(TRUE, UrlA, StatusLink),
      Element(TRUE, UrlB, NoLink),
      Element(TRUE, UrlT, NoLink),
      Element(FALSE, NoUrl, NoLink) }

RECURSIVE SeqsUpTo(_, _)
SeqsUpTo(S, n) ==
    IF n = 0 THEN {<<>>}
    ELSE LET shorter == SeqsUpTo(S, n - 1) IN
         shorter \cup { Append(s, x) : s \in { t \in shorter : Len(t) = n - 1 }, x \in S }

\* What find_elements can return: the elements of one DOM snapshot.
Pages == SeqsUpTo(ElementPool, MaxItems)

\* Exceptions the browser calls raise.
Errors == {"WebDriverException", "StaleElementReferenceException"}
NoError == "none"

(***************************************************************************)
(* The image codec adapter.                                                *)
(***************************************************************************)
\* base64.b64decode(data_url.split(b",", 1)[1]) followed by Image.open:
\* ok is FALSE when the split has no second part or the bytes are no image.
Decode(data_url) ==
    IF ~data_url.comma THEN [ok |-> FALSE, img |-> NotAnImage]
    ELSE IF data_url.b64 \notin Images THEN [ok |-> FALSE, img |-> NotAnImage]
    ELSE [ok |-> TRUE, img |-> data_url.b64]

\* len(existing_img.tobytes()) >= len(img.tobytes()); opening an unreadable
\* file raises, which the inner except turns into "overwrite".
ExistingIsLarger(existing, img) ==
    existing # Unreadable /\ existing.payload > img.payload

AlwaysOverwrites(existing, img) == FALSE

ExistingIsSameOrLarger(existing, img) ==
    existing # Unreadable /\ existing.payload >= img.payload

\* save_image_from_data_url over the directory fs (file name -> stored
\* image): the directory afterwards, the return value and the line logged
\* ("saved": logger.info, "exists": logger.debug, "failed": logger.error).
save_image_from_data_url(fs, img_name, data_url) ==
    LET d == Decode(data_url)
        output_file == <<img_name, Lower(d.img.format)>>
    IN  IF ~d.ok
        THEN [files |-> fs, ret |-> FALSE, log |-> "failed"]
        ELSE IF output_file \in DOMAIN fs /\ ExistingIsSameOrLarger(fs[output_file], d.img)
        THEN [files |-> fs, ret |-> TRUE, log |-> "exists"]
        ELSE [files |-> [f \in DOMAIN fs \cup {output_file} |->
                            IF f = output_file THEN d.img ELSE fs[f]],
              ret |-> TRUE, log |-> "saved"]

(***************************************************************************)
(* The fetch bridge.                                                       *)
(***************************************************************************)
\* What driver.execute_script does with the fetch script: it returns the
\* data URL, returns nothing, or raises.
ScriptOutcomes ==
    [kind : {"result"}, data : DataUrls]
        \cup [kind : {"empty", "JavascriptException", "Exception"},
              data : {NoCommaUrl}]

\* return result.encode("ascii") if result else None
ReturnsAnyResult(outcome) ==
    [ok |-> outcome.kind \in {"result", "empty"}, data |-> outcome.data]

\* fetch_image: the data URL, or None (ok = FALSE) for an empty result and
\* for every exception.
fetch_image(outcome) ==
    IF outcome.kind = "result"
    THEN [ok |-> TRUE, data |-> outcome.data]
    ELSE [ok |-> FALSE, data |-> outcome.data]

(***************************************************************************)
(* The page content extractor's helpers.                                   *)
(***************************************************************************)
\* any(size in url for size in ["name=240x240", "name=360x360"])
NoThumbnail(url) == FALSE

IsThumbnail(url) == url.name \in {"240x240", "360x360"}

\* _enhance_image_url: format jpg/webp -> png, name small/900x900 -> large.
enhance_image_url(url) ==
    [url EXCEPT !.format = IF @ \in {"jpg", "webp"} THEN "png" ELSE @,
                !.name = IF @ \in {"small", "900x900"} THEN "large" ELSE @]

\* if len(path_parts) >= 5
HasStatusParts(path) == Len(path) >= 5 /\ path[3] = "status"

HasFiveParts(path) == Len(path) >= 5

\* get_image_name for a URL that urlparse accepts: <<author, post id,
\* image id>> (the second and fourth part of the link's path) when the
\* ancestor has an href of at least five path parts, the image id alone
\* otherwise.
get_image_name(img_element, url) ==
    IF img_element.link.kind = "href" /\ HasFiveParts(img_element.link.path)
    THEN <<img_element.link.path[2], img_element.link.path[4], url.id>>
    ELSE <<url.id>>

\* self.config.save_path / f"{image_name}.png"
PngFile(image_name) == <<image_name, "png">>

\* if output_file.exists(): continue
NeverSaved(fs, image_name) == FALSE

AlreadySaved(fs, image_name) == PngFile(image_name) \in DOMAIN fs

\* while error_count < max_error_count (the per-item retry loop)
MayFetchOnceMore(count, max) == count <= max

MayFetch(count, max) == count < max

(***************************************************************************)
(* State.                                                                  *)
(***************************************************************************)
VARIABLES
    files,            \* the output directory: file name -> stored image
    \* direct calls of save_image_from_data_url (the codec adapter alone)
    persist_calls,    \* how many were made
    last_save,        \* the arguments of the last one
    save_out,         \* what the last one returned and logged
    fetch_seen,       \* the last pass of the per-item retry loop that was watched
    scroll_seen,      \* the last scroll block that was watched
    round_log,        \* the viewed sets the watched extractions returned, in order
    \* SessionManager (session.py)
    cookies_file,     \* session_path / "cookies.json"
    jar,              \* the cookie records the browser accepted during the last load
    replayed,         \* the records the last load passed to driver.add_cookie
    session_op,       \* the last SessionManager call and what it returned
    \* DebugCapture (debug.py)
    step_counter,     \* self.step_counter
    debug_files,      \* the kinds of file written under config.debug_path
    debug_browser,    \* a DebugCapture method has called the driver
    debug_op,         \* the last DebugCapture call and how it ended
    \* one run of a CLI command (cli.py)
    cli_pc,           \* position in the command
    cli_args,         \* the command and its options
    env_missing,      \* config.validate(): the credentials the environment lacks
    cli_driver,       \* driver_manager.driver: "none", "live" or "quit"
    cli_trace,        \* what the command did so far, in order
    exit_code,        \* the exit status, -1 while none was chosen
    \* direct calls of get_image_name
    name_seen,        \* the calls made: element link, URL and returned name
    name_clock,       \* int(time.time()) since the first call
    name_calls,       \* how many were made
    \* one call of TwitterAuth.login (auth.py)
    auth_pc,          \* position in login, try_restore_session and _fresh_login
    auth_cfg,         \* the save_session argument and config.max_error_count
    attempt,          \* iterations of the _verify_login loop begun
    auth_trace,       \* what the call did so far, in order
    auth_ret,         \* what login returned: "none", "true" or "false"
    \* download_visible_images: its frame while a caller is inside it
    dvi_pc,           \* "idle", "find", "item", "fetch", "returned", "raised"
    dvi_max,          \* its max_error_count argument
    imgs,             \* the elements find_elements returned
    idx,              \* position of the for loop in imgs
    dvi_viewed,       \* its local viewed_urls
    dvi_last,         \* its local last_img (0: None, else a position in imgs)
    dvi_errors,       \* its local error_count
    dvi_exc,          \* the exception it raised
    fetch_log,        \* per element, the fetch_image calls of this call: TRUE
                      \* for one that returned data, FALSE for one that returned None
    \* scroll_and_download: its frame
    pc,               \* position in scroll_and_download
    max_scroll, max_error_count,
    loop, previous_urls, total_downloaded, error_count,
    last_img, viewed_urls,
    result,           \* the value returned
    exc,              \* the exception that left the function
    extract_calls,    \* download_visible_images calls made by the run
    round_calls,      \* those made for the current round
    failed_calls,     \* those that raised
    scrolls,          \* scroll_to_element(...).perform() calls made
    \* the HTTP service (app.py)
    tasks,            \* the registry: task id -> TaskInfo
    active_tasks,     \* the ids registered with their thread
    h_pc,             \* per task id, the position of the handler creating it
    t_pc,             \* per task id, the position of its run_download_task thread
    t_debug,          \* per task id, the thread's debug_mode argument
    t_local,          \* per task id, the thread's locals
    clock,            \* per task id, the datetime.now() readings made for it
    driver_lock,      \* the task id whose thread holds driver_lock, 0 if free
    driver_manager,   \* the global driver_manager is set
    driver,           \* driver_manager.driver is set
    scraper,          \* the global scraper is set
    debug_mode,       \* config.debug_mode
    response,         \* the last response of POST /tasks/<id>/cancel
    cancel_seen,      \* where each thread stood when its task was last cancelled
    s_pc,             \* the position of the GET /status handler
    built,            \* how many DriverManager, WebDriver and scraper objects were built
    \* the lock skeleton of app.py (SpecLocks)
    l_pc,             \* per handler or thread, the instruction it is at
    task_lock,        \* who holds task_lock, "free" if nobody
    l_driver_lock     \* who holds driver_lock in the lock skeleton

dviVars == <<dvi_pc, dvi_max, imgs, idx, dvi_viewed, dvi_last, dvi_errors,
             dvi_exc, fetch_log>>
persistVars == <<persist_calls, last_save, save_out>>
probeVars == <<fetch_seen, scroll_seen, round_log>>
sessionVars == <<cookies_file, jar, replayed, session_op>>
\* the state of the modules beside the scraper and the service
debugVars == <<step_counter, debug_files, debug_browser, debug_op>>
cliVars == <<cli_pc, cli_args, env_missing, cli_driver, cli_trace, exit_code>>
nameVars == <<name_seen, name_clock, name_calls>>
authVars == <<auth_pc, auth_cfg, attempt, auth_trace, auth_ret>>
sideVars == <<sessionVars, debugVars, cliVars, nameVars, authVars>>
fsVars == <<files, persistVars, probeVars, sideVars>>
engineVars == <<pc, max_scroll, max_error_count, loop, previous_urls,
                total_downloaded, error_count, last_img, viewed_urls, result,
                exc, extract_calls, round_calls, failed_calls, scrolls>>
lockVars == <<l_pc, task_lock, l_driver_lock>>
svcVars == <<tasks, active_tasks, h_pc, t_pc, t_debug, t_local, clock,
             driver_lock, driver_manager, driver, scraper, debug_mode, response,
             cancel_seen, s_pc, built>>
appVars == <<svcVars, lockVars>>
\* the frames of the callers of download_visible_images
callerVars == <<engineVars, appVars>>
vars == <<fsVars, dviVars, engineVars, appVars>>
\* everything but the state of SessionManager, of DebugCapture
besideSession == <<files, persistVars, probeVars, debugVars, cliVars, nameVars, authVars, dviVars,
                   engineVars, appVars>>
besideDebug == <<files, persistVars, probeVars, sessionVars, cliVars, nameVars, authVars, dviVars,
                 engineVars, appVars>>
\* everything but the CLI command, the session file and the engine
besideCli == <<files, persistVars, probeVars, debugVars, nameVars, authVars, jar, replayed,
               session_op, dviVars, appVars>>
besideNames == <<files, persistVars, probeVars, sessionVars, debugVars, cliVars, authVars,
                 dviVars, engineVars, appVars>>
\* everything but the login call and the session file
besideAuth == <<files, persistVars, probeVars, debugVars, cliVars, nameVars, jar, replayed,
                session_op, dviVars, engineVars, appVars>>

NoSave == [name |-> <<>>, data |-> NoCommaUrl]
NoOut == [ret |-> FALSE, log |-> "none"]

\* No pass of the retry loop was watched yet.  Otherwise: what execute_script
\* did, what fetch_image returned, what save_image_from_data_url returned and
\* logged (NoOut when it was not called), the download_visible_images call
\* and the element of the pass, and how many times that element was handed
\* to save_image_from_data_url in that call.
\* No scroll block was watched yet.  Otherwise: what the block did, in
\* which round, and with which anchor.
NoScroll == [outcome |-> "none", loop |-> 0, anchor |-> 0]

NoFetch ==
    [outcome |-> [kind |-> "none", data |-> NoCommaUrl],
     ret |-> [ok |-> FALSE, data |-> NoCommaUrl],
     saved |-> NoOut, call |-> 0, item |-> 0, saves |-> 0]

\* A browser cookie as get_cookies returns it and json.dump stores it; an
\* attribute the record does not have is Absent.
Absent == "-"
Cookie(name, value, sameSite, staleAt) ==
    [name |-> name, value |-> value, sameSite |-> sameSite, staleAt |-> staleAt]
CookiePool ==
    { Cookie("auth_token", "a", "Lax", Absent),
      Cookie("ct0", "b", Absent, "1700000000"),
      Cookie("guest_id", "c", Absent, Absent) }
CookieLists == SeqsUpTo(CookiePool, MaxCookies)

\* cookies.json: missing, or a file of some size that holds a JSON list of
\* cookie records (valid) or the cut-off output of a write that failed.
NoFile == [exists |-> FALSE, size |-> 0, valid |-> FALSE, cookies |-> <<>>]
NoCall == [op |-> "none", ret |-> FALSE, why |-> "none"]

InitSession ==
    /\ cookies_file = NoFile
    /\ jar = <<>>
    /\ replayed = <<>>
    /\ session_op = NoCall

NoDebugCall == [op |-> "none", ended |-> "none"]

InitDebug ==
    /\ step_counter = 0
    /\ debug_files = {}
    /\ debug_browser = FALSE
    /\ debug_op = NoDebugCall

\* No CLI command was invoked.
NoArgs == [cmd |-> "none", no_login |-> FALSE, save_session |-> FALSE, max_scroll |-> 0]

CliOff ==
    /\ cli_pc = "none"
    /\ cli_args = NoArgs
    /\ env_missing = {}
    /\ cli_driver = "none"
    /\ cli_trace = <<>>
    /\ exit_code = -1

InitNames ==
    /\ name_seen = {}
    /\ name_clock = 0
    /\ name_calls = 0

\* TwitterAuth.login was not called.
NoAuthCfg == [save_session |-> FALSE, max_error_count |-> 0]

AuthOff ==
    /\ auth_pc = "off"
    /\ auth_cfg = NoAuthCfg
    /\ attempt = 0
    /\ auth_trace = <<>>
    /\ auth_ret = "none"

InitSide == InitSession /\ InitDebug /\ CliOff /\ InitNames /\ AuthOff

\* The output directory is empty and nothing was saved or watched.
InitFiles ==
    /\ files = <<>>
    /\ persist_calls = 0
    /\ last_save = NoSave
    /\ save_out = NoOut
    /\ fetch_seen = NoFetch
    /\ scroll_seen = NoScroll
    /\ round_log = <<>>

InitFs == InitFiles /\ InitSide

InitDvi ==
    /\ dvi_pc = "idle"
    /\ dvi_max = DefaultMaxErrorCount
    /\ imgs = <<>>
    /\ idx = 0
    /\ dvi_viewed = {}
    /\ dvi_last = 0
    /\ dvi_errors = 0
    /\ dvi_exc = NoError
    /\ fetch_log = <<>>

(***************************************************************************)
(* The HTTP service's state (app.py).                                      *)
(***************************************************************************)
TaskIds == 1..MaxTasks

\* The ids of the concurrent service runs; the holder id of driver_lock for
\* the GET /status handler.
ThreadIds == 1..MaxThreads
StatusId == MaxThreads + 1

\* TaskStatus
PENDING == "pending"
RUNNING == "running"
COMPLETED == "completed"
FAILED == "failed"
CANCELLED == "cancelled"
Finished == {COMPLETED, FAILED, CANCELLED}

\* progress={"images_processed": 0, "scroll_iterations": 0}; the key
\* current_page_images is absent (-1) until the thread's first update.
Progress(images, iterations, page) ==
    [images_processed |-> images, scroll_iterations |-> iterations,
     current_page_images |-> page]

\* results={} (filled = FALSE), or the dict of a completed task.
NoResults ==
    [filled |-> FALSE, total_images_processed |-> 0,
     scroll_iterations_completed |-> 0, debug_enabled |-> FALSE]

\* TaskInfo(...) as download() and refresh() build it; a timestamp is the
\* number of the datetime.now() reading, 0 for None; error_message "" is None.
NewTask(scroll, created) ==
    [status |-> PENDING, max_scroll |-> scroll, created_at |-> created,
     started_at |-> 0, completed_at |-> 0, error_message |-> "",
     progress |-> Progress(0, 0, -1), results |-> NoResults]

\* The locals of run_download_task before line 153 assigns them;
\* preceding_urls keeps what previous_urls was before the round's update.
NoLocals ==
    [total_images |-> 0, loop |-> 0, previous_urls |-> {}, last_img |-> 0,
     viewed_urls |-> {}, exc |-> NoError, preceding_urls |-> {}]

NoResponse == [id |-> 0, code |-> 0]

\* The handlers and the two task threads of the lock skeleton.
LockProcs == {"run_download_task", "run_download_task#2", "download", "refresh",
              "status", "get_tasks", "get_task", "cancel_task"}

\* No cancel request has been accepted for the task.
NotCancelled == [at |-> "never", loop |-> 0, progress |-> Progress(0, 0, -1)]

\* The service handles no request and runs no thread.
AppOff ==
    /\ tasks = <<>>
    /\ active_tasks = {}
    /\ h_pc = [i \in ThreadIds |-> "none"]
    /\ t_pc = [i \in ThreadIds |-> "unstarted"]
    /\ t_debug = [i \in ThreadIds |-> FALSE]
    /\ t_local = [i \in ThreadIds |-> NoLocals]
    /\ clock = [i \in ThreadIds |-> 0]
    /\ driver_lock = 0
    /\ driver_manager = FALSE
    /\ driver = FALSE
    /\ scraper = FALSE
    /\ debug_mode = FALSE
    /\ response = NoResponse
    /\ cancel_seen = [i \in ThreadIds |-> NotCancelled]
    /\ s_pc = "idle"
    /\ built = [manager |-> 0, driver |-> 0, scraper |-> 0]
    /\ l_pc = [p \in LockProcs |-> 1]
    /\ task_lock = "free"
    /\ l_driver_lock = "free"

(***************************************************************************)
(* download_visible_images, one step per browser call.                     *)
(***************************************************************************)
\* The call itself: the frame is set up and find_elements is next.
CallDvi(max) ==
    /\ dvi_pc' = "find"
    /\ dvi_max' = max
    /\ imgs' = <<>>
    /\ idx' = 0
    /\ dvi_viewed' = {}
    /\ dvi_last' = 0
    /\ dvi_errors' = 0
    /\ dvi_exc' = NoError
    /\ fetch_log' = <<>>

\* The caller has taken the return value or the exception: the frame of
\* download_visible_images is gone.
LeaveDvi ==
    /\ dvi_pc' = "idle"
    /\ dvi_max' = DefaultMaxErrorCount
    /\ imgs' = <<>>
    /\ idx' = 0
    /\ dvi_viewed' = {}
    /\ dvi_last' = 0
    /\ dvi_errors' = 0
    /\ dvi_exc' = NoError
    /\ fetch_log' = <<>>

\* The longest DOM snapshot explored: service threads (they hold driver_lock)
\* see pages of at most MaxAppItems elements, the CLI engine MaxItems.
PageLimit == IF driver_lock # 0 THEN MaxAppItems ELSE MaxItems

\* imgs = self.driver.find_elements(...): a DOM snapshot, or an exception
\* that leaves download_visible_images.
FindElementsAmong(pages) ==
    /\ dvi_pc = "find"
    /\ \/ \E page \in pages :
             /\ Len(page) <= PageLimit
             /\ imgs' = page
             /\ fetch_log' = [i \in 1..Len(page) |-> <<>>]
             /\ idx' = 1
             /\ dvi_pc' = "item"
             /\ UNCHANGED dvi_exc
       \/ \E e \in Errors :
             /\ dvi_pc' = "raised"
             /\ dvi_exc' = e
             /\ UNCHANGED <<imgs, fetch_log, idx>>
    /\ UNCHANGED <<dvi_max, dvi_viewed, dvi_last, dvi_errors>>
    /\ UNCHANGED <<fsVars, callerVars>>

DviFindElements == FindElementsAmong(Pages)

\* One pass of "for img in imgs" up to the retry loop: the src attribute is
\* read, the URL recorded, thumbnails and already saved images skipped.
\* Past the last element the function returns (last_img, viewed_urls).
DviNextItem ==
    /\ dvi_pc = "item"
    /\ IF idx > Len(imgs)
       THEN /\ dvi_pc' = "returned"
            /\ UNCHANGED <<idx, dvi_viewed, dvi_last, dvi_errors, dvi_exc>>
       ELSE \/ \E e \in Errors :      \* img.get_attribute("src") raises
                /\ dvi_pc' = "raised"
                /\ dvi_exc' = e
                /\ UNCHANGED <<idx, dvi_viewed, dvi_last, dvi_errors>>
            \/ LET img == imgs[idx]
                   url == img.src
                   image_name == get_image_name(img, enhance_image_url(url))
               IN  /\ UNCHANGED dvi_exc
                   /\ IF ~img.has_src
                      THEN /\ idx' = idx + 1
                           /\ UNCHANGED <<dvi_pc, dvi_viewed, dvi_last, dvi_errors>>
                      ELSE /\ dvi_viewed' = dvi_viewed \cup {url}
                           /\ IF IsThumbnail(url)
                              THEN /\ idx' = idx + 1
                                   /\ UNCHANGED <<dvi_pc, dvi_last, dvi_errors>>
                              ELSE /\ dvi_last' = idx
                                   /\ IF AlreadySaved(files, image_name)
                                      THEN /\ idx' = idx + 1
                                           /\ UNCHANGED <<dvi_pc, dvi_errors>>
                                      ELSE /\ dvi_errors' = 0
                                           /\ dvi_pc' = "fetch"
                                           /\ UNCHANGED idx
    /\ UNCHANGED <<dvi_max, imgs, fetch_log>>
    /\ UNCHANGED <<fsVars, callerVars>>

\* self.save_image_from_data_url(...); break (the return value is dropped)
StopsWhenSaved(save_ret) == save_ret

StopsRetrying(save_ret) == TRUE

\* One pass of "while error_count < max_error_count" in which execute_script
\* does outcome: fetch_image, then either save_image_from_data_url and
\* break, or count the error.
FetchPass(outcome) ==
    LET img == imgs[idx]
        url == enhance_image_url(img.src)
        image_name == get_image_name(img, url)
        img_data == fetch_image(outcome)
        saved == save_image_from_data_url(files, image_name, img_data.data)
    IN  /\ fetch_log' = [fetch_log EXCEPT ![idx] = Append(@, img_data.ok)]
        /\ IF img_data.ok
           THEN /\ files' = saved.files
                /\ IF StopsRetrying(saved.ret)
                   THEN idx' = idx + 1 /\ dvi_pc' = "item"
                   ELSE UNCHANGED <<idx, dvi_pc>>
                /\ UNCHANGED dvi_errors
           ELSE /\ dvi_errors' = dvi_errors + 1
                /\ UNCHANGED <<files, idx, dvi_pc>>

\* The retry loop is left without a fetch: error_count reached
\* max_error_count.
FetchGiveUp ==
    /\ idx' = idx + 1
    /\ dvi_pc' = "item"
    /\ UNCHANGED <<fetch_log, dvi_errors, files>>

\* One pass of "while error_count < max_error_count": fetch_image, then
\* either save_image_from_data_url and break, or count the error.
FetchAmong(outcomes) ==
    /\ dvi_pc = "fetch"
    /\ IF MayFetch(dvi_errors, dvi_max)
       THEN \E outcome \in outcomes : FetchPass(outcome)
       ELSE FetchGiveUp
    /\ UNCHANGED <<dvi_max, imgs, dvi_viewed, dvi_last, dvi_exc>>
    /\ UNCHANGED <<persistVars, probeVars, sideVars, callerVars>>

DviFetch == FetchAmong(ScriptOutcomes)

(***************************************************************************)
(* scroll_and_download.                                                    *)
(***************************************************************************)
InitEngine ==
    /\ pc = "start"
    /\ max_scroll \in 0..MaxScroll
    /\ max_error_count \in 1..MaxErr
    /\ loop = 0
    /\ previous_urls = {}
    /\ total_downloaded = 0
    /\ error_count = 0
    /\ last_img = 0
    /\ viewed_urls = {}
    /\ result = -1
    /\ exc = NoError
    /\ extract_calls = 0
    /\ round_calls = 0
    /\ failed_calls = 0
    /\ scrolls = 0

\* len(viewed_urls.union(previous_urls)) == len(previous_urls)
SameCount(viewed, previous) ==
    Cardinality(viewed) = Cardinality(previous)

NoNewContent(viewed, previous) ==
    Cardinality(viewed \cup previous) = Cardinality(previous)

\* while loop < max_scroll
OneRoundMore(count, max) == count <= max

MoreRounds(count, max) == count < max

\* while error_count < max_error_count (the round's retry loop)
MayRetry(count, max) == count < max

\* if error_count >= max_error_count: raise
ErrorsExceeded(count, max) == count > max

MaxErrorsReached(count, max) == count >= max

\* previous_urls = viewed_urls
AccumulatedUrls(viewed, previous) == viewed \cup previous

RoundUrls(viewed, previous) == viewed

\* self.driver.get(self.config.likes_url), then loop = 0,
\* previous_urls = set(), total_downloaded = 0.  An exception of the
\* navigation leaves the function: nothing catches it.
Navigate ==
    /\ pc = "start"
    /\ \/ /\ pc' = "while"
          /\ loop' = 0
          /\ previous_urls' = {}
          /\ total_downloaded' = 0
          /\ UNCHANGED exc
       \/ \E e \in Errors :
          /\ pc' = "raised_get"
          /\ exc' = e
          /\ UNCHANGED <<loop, previous_urls, total_downloaded>>
    /\ UNCHANGED <<max_scroll, max_error_count, error_count, last_img,
                   viewed_urls, result, extract_calls, round_calls,
                   failed_calls, scrolls>>
    /\ UNCHANGED <<fsVars, dviVars, appVars>>

\* while loop < max_scroll: error_count = 0; past the loop, return
\* total_downloaded.
WhileLoop ==
    /\ pc = "while"
    /\ IF MoreRounds(loop, max_scroll)
       THEN /\ error_count' = 0
            /\ round_calls' = 0
            /\ pc' = "retry"
            /\ UNCHANGED result
       ELSE /\ pc' = "completed"
            /\ result' = total_downloaded
            /\ UNCHANGED <<error_count, round_calls>>
    /\ UNCHANGED <<max_scroll, max_error_count, loop, previous_urls,
                   total_downloaded, last_img, viewed_urls, exc,
                   extract_calls, failed_calls, scrolls>>
    /\ UNCHANGED <<fsVars, dviVars, appVars>>

\* while error_count < max_error_count: try: download_visible_images(...)
RetryLoop ==
    /\ pc = "retry"
    /\ MayRetry(error_count, max_error_count)
    /\ pc' = "extract"
    /\ extract_calls' = extract_calls + 1
    /\ round_calls' = round_calls + 1
    /\ CallDvi(max_error_count)
    /\ UNCHANGED appVars
    /\ UNCHANGED <<max_scroll, max_error_count, loop, previous_urls,
                   total_downloaded, error_count, last_img, viewed_urls,
                   result, exc, failed_calls, scrolls>>
    /\ UNCHANGED fsVars

\* download_visible_images returned: the exhaustion test, and either
\* return total_downloaded or the update of the round state and break.
ExtractPass ==
    /\ pc = "extract"
    /\ dvi_pc = "returned"
    /\ last_img' = dvi_last
    /\ viewed_urls' = dvi_viewed
    /\ IF NoNewContent(dvi_viewed, previous_urls)
       THEN /\ pc' = "exhausted"
            /\ result' = total_downloaded
            /\ UNCHANGED <<total_downloaded, previous_urls>>
       ELSE /\ total_downloaded' =
                  total_downloaded + Cardinality(dvi_viewed \ previous_urls)
            /\ previous_urls' = RoundUrls(dvi_viewed, previous_urls)
            /\ pc' = "scroll"
            /\ UNCHANGED result
    /\ UNCHANGED <<max_scroll, max_error_count, loop, error_count, exc,
                   extract_calls, round_calls, failed_calls, scrolls>>
    /\ LeaveDvi

ExtractReturned == ExtractPass /\ UNCHANGED <<fsVars, appVars>>

\* except Exception as e: error_count += 1; raise when error_count reaches
\* max_error_count, else retry the round.
ExtractRaised ==
    /\ pc = "extract"
    /\ dvi_pc = "raised"
    /\ error_count' = error_count + 1
    /\ failed_calls' = failed_calls + 1
    /\ IF MaxErrorsReached(error_count + 1, max_error_count)
       THEN /\ pc' = "raised"
            /\ exc' = dvi_exc
       ELSE /\ pc' = "retry"
            /\ UNCHANGED exc
    /\ UNCHANGED <<max_scroll, max_error_count, loop, previous_urls,
                   total_downloaded, last_img, viewed_urls, result,
                   extract_calls, round_calls, scrolls>>
    /\ LeaveDvi
    /\ UNCHANGED <<fsVars, appVars>>

\* except Exception as e: logger.warning(f"Scroll error: {e}"): whether an
\* exception of the scroll leaves scroll_and_download.
ScrollUncaught(raised) == raised

ScrollEscapes(raised) == FALSE

\* if last_img: without an anchor nothing is scrolled; with one,
\* scroll_to_element(last_img).perform() returns or raises.
ScrollOutcomes(anchor) ==
    IF anchor # 0 THEN {"scrolled", "raised"} ELSE {"skipped"}

\* The scroll block and loop += 1.
ScrollPass(outcome) ==
    /\ scrolls' = IF outcome = "skipped" THEN scrolls ELSE scrolls + 1
    /\ IF ScrollEscapes(outcome = "raised")
       THEN /\ pc' = "raised"
            /\ exc' = "WebDriverException"
            /\ UNCHANGED loop
       ELSE /\ loop' = loop + 1
            /\ pc' = "while"
            /\ UNCHANGED exc
    /\ UNCHANGED <<max_scroll, max_error_count, previous_urls,
                   total_downloaded, error_count, last_img, viewed_urls,
                   result, extract_calls, round_calls, failed_calls>>

\* if last_img: scroll_to_element(last_img).perform() (an exception of the
\* scroll is logged and dropped); loop += 1.
Scroll ==
    /\ pc = "scroll"
    /\ \E outcome \in ScrollOutcomes(last_img) : ScrollPass(outcome)
    /\ UNCHANGED <<fsVars, dviVars, appVars>>

EngineStep ==
    \/ Navigate
    \/ WhileLoop
    \/ RetryLoop
    \/ ExtractReturned
    \/ ExtractRaised
    \/ Scroll

Init == InitFs /\ InitDvi /\ InitEngine /\ AppOff

Next ==
    \/ EngineStep
    \/ DviFindElements
    \/ DviNextItem
    \/ DviFetch

Spec == Init /\ [][Next]_vars

(***************************************************************************)
(* The CLI engine with the per-item retry loop watched: the same steps,    *)
(* and each pass of the loop leaves in fetch_seen what execute_script did  *)
(* and what fetch_image and save_image_from_data_url returned.             *)
(***************************************************************************)
WatchedPass(outcome) ==
    LET img == imgs[idx]
        image_name == get_image_name(img, enhance_image_url(img.src))
        img_data == fetch_image(outcome)
        saved == save_image_from_data_url(files, image_name, img_data.data)
        again == fetch_seen.call = extract_calls /\ fetch_seen.item = idx
        before == IF again THEN fetch_seen.saves ELSE 0
    IN  fetch_seen' =
            [outcome |-> outcome,
             ret |-> img_data,
             saved |-> IF img_data.ok
                       THEN [ret |-> saved.ret, log |-> saved.log]
                       ELSE NoOut,
             call |-> extract_calls,
             item |-> idx,
             saves |-> IF img_data.ok THEN before + 1 ELSE before]

DviFetchWatched ==
    /\ dvi_pc = "fetch"
    /\ IF MayFetch(dvi_errors, dvi_max)
       THEN \E outcome \in ScriptOutcomes :
                FetchPass(outcome) /\ WatchedPass(outcome)
       ELSE FetchGiveUp /\ UNCHANGED fetch_seen
    /\ UNCHANGED <<dvi_max, imgs, dvi_viewed, dvi_last, dvi_exc>>
    /\ UNCHANGED <<persistVars, scroll_seen, round_log, sideVars, callerVars>>

NextFetch ==
    \/ EngineStep
    \/ DviFindElements
    \/ DviNextItem
    \/ DviFetchWatched

SpecFetch == Init /\ [][NextFetch]_vars

(***************************************************************************)
(* The CLI engine with the scroll block watched: the same steps, and each  *)
(* scroll block leaves in scroll_seen what it did.                         *)
(***************************************************************************)
ScrollWatched ==
    /\ pc = "scroll"
    /\ \E outcome \in ScrollOutcomes(last_img) :
          /\ ScrollPass(outcome)
          /\ scroll_seen' = [outcome |-> outcome, loop |-> loop, anchor |-> last_img]
    /\ UNCHANGED <<files, persistVars, fetch_seen, round_log, sideVars, dviVars, appVars>>

NextScroll ==
    \/ Navigate
    \/ WhileLoop
    \/ RetryLoop
    \/ ExtractReturned
    \/ ExtractRaised
    \/ ScrollWatched
    \/ DviFindElements
    \/ DviNextItem
    \/ DviFetch

SpecScroll == Init /\ [][NextScroll]_vars

(***************************************************************************)
(* The CLI engine with the rounds logged: runs of max_scroll = MaxRounds   *)
(* over pages of the images A and B, in which every extraction that        *)
(* returns appends its viewed set to round_log.                            *)
(***************************************************************************)
RoundPages ==
    { <<>>,
      <<Element(TRUE, UrlA, StatusLink)>>,
      <<Element(TRUE, UrlB, NoLink)>>,
      <<Element(TRUE, UrlA, StatusLink), Element(TRUE, UrlB, NoLink)>> }

RoundOutcomes ==
    { [kind |-> "result", data |-> [comma |-> TRUE, b64 |-> [format |-> "PNG", payload |-> 1]]],
      [kind |-> "empty", data |-> NoCommaUrl] }

RoundFindElements == FindElementsAmong(RoundPages)
RoundFetch == FetchAmong(RoundOutcomes)

ExtractLogged ==
    /\ ExtractPass
    /\ round_log' = Append(round_log, dvi_viewed)
    /\ UNCHANGED <<files, persistVars, fetch_seen, scroll_seen, sideVars, appVars>>

InitRounds ==
    /\ InitFs /\ InitDvi /\ AppOff
    /\ pc = "start"
    /\ max_scroll = MaxRounds
    /\ max_error_count \in 1..MaxErr
    /\ loop = 0
    /\ previous_urls = {}
    /\ total_downloaded = 0
    /\ error_count = 0
    /\ last_img = 0
    /\ viewed_urls = {}
    /\ result = -1
    /\ exc = NoError
    /\ extract_calls = 0
    /\ round_calls = 0
    /\ failed_calls = 0
    /\ scrolls = 0

NextRounds ==
    \/ Navigate
    \/ WhileLoop
    \/ RetryLoop
    \/ ExtractLogged
    \/ ExtractRaised
    \/ Scroll
    \/ RoundFindElements
    \/ DviNextItem
    \/ RoundFetch

SpecRounds == InitRounds /\ [][NextRounds]_vars

(***************************************************************************)
(* The CLI engine when every browser call returns or raises: each step     *)
(* that can be taken is eventually taken.                                  *)
(***************************************************************************)
NextTerm ==
    \/ EngineStep
    \/ RoundFindElements
    \/ DviNextItem
    \/ RoundFetch

SpecTerm == Init /\ [][NextTerm]_vars /\ WF_vars(NextTerm)

(***************************************************************************)
(* The HTTP service: download(), refresh(), cancel_task() and the thread   *)
(* run_download_task.  A "with task_lock:" block is one step.              *)
(***************************************************************************)
\* DriverManager.get_driver: if self.driver is None
AlwaysCreates(d) == TRUE

NeedsDriver(d) == ~d

\* ensure_driver() creates what is missing; only create_driver can fail:
\* before the WebDriver is constructed (self.driver stays as it was), or
\* after it, in set_window_size or set_page_load_timeout (self.driver keeps
\* the new WebDriver).  ok says whether ensure_driver returned True, made
\* how many WebDrivers were constructed.
EnsureDriverOutcomes ==
    IF NeedsDriver(driver)
    THEN { [ok |-> TRUE, driver |-> TRUE, made |-> 1],
           [ok |-> FALSE, driver |-> driver, made |-> 0],
           [ok |-> FALSE, driver |-> TRUE, made |-> 1] }
    ELSE { [ok |-> TRUE, driver |-> TRUE, made |-> 0] }

\* The globals after ensure_driver() ended with outcome o: what was missing
\* has been built, the scraper only when the driver was there.
ensure_driver(o) ==
    /\ driver_manager' = TRUE
    /\ driver' = o.driver
    /\ scraper' = (scraper \/ o.ok)
    /\ built' = [manager |-> built.manager + (IF driver_manager THEN 0 ELSE 1),
                   driver |-> built.driver + o.made,
                   scraper |-> built.scraper + (IF o.ok /\ ~scraper THEN 1 ELSE 0)]

\* download() and refresh() up to "with task_lock: tasks[task_id] = task".
\* uuid.uuid4() is a fresh id: the next unused one.
CreateTask(id, scroll, debug) ==
    /\ h_pc[id] = "none"
    /\ \A j \in ThreadIds : j < id => h_pc[j] # "none"
    /\ tasks' = [i \in DOMAIN tasks \cup {id} |->
                    IF i = id THEN NewTask(scroll, clock[id] + 1) ELSE tasks[i]]
    /\ clock' = [clock EXCEPT ![id] = @ + 1]
    /\ t_debug' = [t_debug EXCEPT ![id] = debug]
    /\ h_pc' = [h_pc EXCEPT ![id] = "inserted"]
    /\ UNCHANGED <<active_tasks, t_pc, t_local, driver_lock, driver_manager,
                   driver, scraper, debug_mode, response>>
    /\ UNCHANGED <<fsVars, dviVars, engineVars, cancel_seen, s_pc, built, lockVars>>

\* POST /download
DownloadFor(ids, limits) ==
    \E id \in ids, scroll \in limits, debug \in BOOLEAN :
        CreateTask(id, scroll, debug)

Download == DownloadFor(TaskIds, 0..MaxScroll)

\* POST /refresh
RefreshFor(ids, limits) ==
    \E id \in ids, scroll \in limits, debug \in BOOLEAN :
        CreateTask(id, scroll, debug)

Refresh == RefreshFor(TaskIds, 0..MaxScroll)

\* thread = threading.Thread(target=run_download_task, ...); thread.start()
StartThread(id) ==
    /\ h_pc[id] = "inserted"
    /\ h_pc' = [h_pc EXCEPT ![id] = "started"]
    /\ t_pc' = [t_pc EXCEPT ![id] = "start"]
    /\ UNCHANGED <<tasks, active_tasks, t_debug, t_local, clock, driver_lock,
                   driver_manager, driver, scraper, debug_mode, response>>
    /\ UNCHANGED <<fsVars, dviVars, engineVars, cancel_seen, s_pc, built, lockVars>>

\* with task_lock: active_tasks[task_id] = thread; the handler returns.
RegisterThread(id) ==
    /\ h_pc[id] = "started"
    /\ h_pc' = [h_pc EXCEPT ![id] = "returned"]
    /\ active_tasks' = active_tasks \cup {id}
    /\ UNCHANGED <<tasks, t_pc, t_debug, t_local, clock, driver_lock,
                   driver_manager, driver, scraper, debug_mode, response>>
    /\ UNCHANGED <<fsVars, dviVars, engineVars, cancel_seen, s_pc, built, lockVars>>

\* with task_lock: task = tasks.get(task_id); if not task: return
TaskLookup(id) ==
    /\ t_pc[id] = "start"
    /\ t_pc' = [t_pc EXCEPT ![id] = IF id \in DOMAIN tasks THEN "set_running" ELSE "done"]
    /\ UNCHANGED <<tasks, active_tasks, h_pc, t_debug, t_local, clock,
                   driver_lock, driver_manager, driver, scraper, debug_mode,
                   response>>
    /\ UNCHANGED <<fsVars, dviVars, engineVars, cancel_seen, s_pc, built, lockVars>>

\* task = tasks.get(task_id): the record a thread writes is its own task's.
FirstTask(id) == 1

OwnTask(id) == id

\* with task_lock: task.status = RUNNING; task.started_at = datetime.now()
TaskSetRunning(id) ==
    /\ t_pc[id] = "set_running"
    /\ tasks' = [tasks EXCEPT ![OwnTask(id)].status = RUNNING,
                              ![OwnTask(id)].started_at = clock[id] + 1]
    /\ clock' = [clock EXCEPT ![id] = @ + 1]
    /\ t_pc' = [t_pc EXCEPT ![id] = "enable_debug"]
    /\ UNCHANGED <<active_tasks, h_pc, t_debug, t_local, driver_lock,
                   driver_manager, driver, scraper, debug_mode, response>>
    /\ UNCHANGED <<fsVars, dviVars, engineVars, cancel_seen, s_pc, built, lockVars>>

\* if debug_mode: config.enable_debug()
TaskEnableDebug(id) ==
    /\ t_pc[id] = "enable_debug"
    /\ debug_mode' = IF t_debug[id] THEN TRUE ELSE debug_mode
    /\ t_pc' = [t_pc EXCEPT ![id] = "acquire"]
    /\ UNCHANGED <<tasks, active_tasks, h_pc, t_debug, t_local, clock,
                   driver_lock, driver_manager, driver, scraper, response>>
    /\ UNCHANGED <<fsVars, dviVars, engineVars, cancel_seen, s_pc, built, lockVars>>

\* threading.Lock: "with driver_lock:" is entered when no thread holds it.
LockIgnored(lock) == TRUE

LockFree(lock) == lock = 0

\* with driver_lock: (entered when the lock is free)
TaskAcquireDriver(id) ==
    /\ t_pc[id] = "acquire"
    /\ LockFree(driver_lock)
    /\ driver_lock' = id
    /\ t_pc' = [t_pc EXCEPT ![id] = "ensure"]
    /\ UNCHANGED <<tasks, active_tasks, h_pc, t_debug, t_local, clock,
                   driver_manager, driver, scraper, debug_mode, response>>
    /\ UNCHANGED <<fsVars, dviVars, engineVars, cancel_seen, s_pc, built, lockVars>>

\* if not ensure_driver(): raise ...; driver.get(config.likes_url);
\* total_images = 0; loop = 0; previous_urls = set().  An exception leaves
\* the with block (the lock is released) for the except clause.
TaskEnsureDriver(id) ==
    /\ t_pc[id] = "ensure"
    /\ \E o \in EnsureDriverOutcomes :
          /\ ensure_driver(o)
          /\ IF o.ok
             THEN \/ /\ t_local' = [t_local EXCEPT ![id] = NoLocals]
                     /\ t_pc' = [t_pc EXCEPT ![id] = "while"]
                     /\ UNCHANGED driver_lock
                  \/ \E e \in Errors :
                     /\ t_local' = [t_local EXCEPT ![id].exc = e]
                     /\ t_pc' = [t_pc EXCEPT ![id] = "except"]
                     /\ driver_lock' = 0
             ELSE /\ t_local' = [t_local EXCEPT ![id].exc = "Failed to initialize driver"]
                  /\ t_pc' = [t_pc EXCEPT ![id] = "except"]
                  /\ driver_lock' = 0
    /\ UNCHANGED <<tasks, active_tasks, h_pc, t_debug, clock, debug_mode, response>>
    /\ UNCHANGED <<fsVars, dviVars, engineVars, cancel_seen, s_pc, lockVars>>

\* while loop < task.max_scroll: with task_lock: if task.status ==
\* CANCELLED: return; then scraper.download_visible_images().  Leaving the
\* loop or returning releases driver_lock.
TaskWhile(id) ==
    /\ t_pc[id] = "while"
    /\ IF MoreRounds(t_local[id].loop, tasks[id].max_scroll)
       THEN IF tasks[id].status = CANCELLED
            THEN /\ t_pc' = [t_pc EXCEPT ![id] = "finally"]
                 /\ driver_lock' = 0
                 /\ UNCHANGED dviVars
            ELSE /\ t_pc' = [t_pc EXCEPT ![id] = "extract"]
                 /\ CallDvi(DefaultMaxErrorCount)
                 /\ UNCHANGED driver_lock
       ELSE /\ t_pc' = [t_pc EXCEPT ![id] = "complete"]
            /\ driver_lock' = 0
            /\ UNCHANGED dviVars
    /\ UNCHANGED <<tasks, active_tasks, h_pc, t_debug, t_local, clock,
                   driver_manager, driver, scraper, debug_mode, response>>
    /\ UNCHANGED <<fsVars, engineVars, cancel_seen, s_pc, built, lockVars>>

\* last_img, viewed_urls = ...; new_images = len(viewed_urls -
\* previous_urls); total_images += new_images; previous_urls = viewed_urls;
\* with task_lock: task.progress = {...}
TaskExtractReturned(id) ==
    /\ t_pc[id] = "extract"
    /\ dvi_pc = "returned"
    /\ LET total == t_local[id].total_images
                      + Cardinality(dvi_viewed \ t_local[id].previous_urls)
       IN  /\ t_local' = [t_local EXCEPT ![id].total_images = total,
                                         ![id].previous_urls = dvi_viewed,
                                         ![id].preceding_urls = t_local[id].previous_urls,
                                         ![id].viewed_urls = dvi_viewed,
                                         ![id].last_img = dvi_last]
           /\ tasks' = [tasks EXCEPT ![OwnTask(id)].progress =
                           Progress(total, t_local[id].loop + 1, Cardinality(dvi_viewed))]
    /\ t_pc' = [t_pc EXCEPT ![id] = "check"]
    /\ LeaveDvi
    /\ UNCHANGED <<active_tasks, h_pc, t_debug, clock, driver_lock,
                   driver_manager, driver, scraper, debug_mode, response>>
    /\ UNCHANGED <<fsVars, engineVars, cancel_seen, s_pc, built, lockVars>>

\* except Exception as e: logger.warning(...); loop += 1
TaskExtractRaised(id) ==
    /\ t_pc[id] = "extract"
    /\ dvi_pc = "raised"
    /\ t_local' = [t_local EXCEPT ![id].loop = @ + 1]
    /\ t_pc' = [t_pc EXCEPT ![id] = "while"]
    /\ LeaveDvi
    /\ UNCHANGED <<tasks, active_tasks, h_pc, t_debug, clock, driver_lock,
                   driver_manager, driver, scraper, debug_mode, response>>
    /\ UNCHANGED <<fsVars, engineVars, cancel_seen, s_pc, built, lockVars>>

\* if len(viewed_urls.union(previous_urls)) == len(previous_urls): break;
\* else scroll to last_img if there is one (an exception of the scroll is
\* logged by the same except clause) and loop += 1.
TaskCheck(id) ==
    /\ t_pc[id] = "check"
    /\ IF NoNewContent(t_local[id].viewed_urls, t_local[id].previous_urls)
       THEN /\ t_pc' = [t_pc EXCEPT ![id] = "complete"]
            /\ driver_lock' = 0
            /\ UNCHANGED t_local
       ELSE /\ t_pc' = [t_pc EXCEPT ![id] = "while"]
            /\ t_local' = [t_local EXCEPT ![id].loop = @ + 1]
            /\ UNCHANGED driver_lock
    /\ UNCHANGED <<tasks, active_tasks, h_pc, t_debug, clock, driver_manager,
                   driver, scraper, debug_mode, response>>
    /\ UNCHANGED <<fsVars, dviVars, engineVars, cancel_seen, s_pc, built, lockVars>>

\* with task_lock: task.status = COMPLETED; task.completed_at = ...;
\* task.results = {...}
TaskComplete(id) ==
    /\ t_pc[id] = "complete"
    /\ tasks' = [tasks EXCEPT
                    ![OwnTask(id)].status = COMPLETED,
                    ![OwnTask(id)].completed_at = clock[id] + 1,
                    ![OwnTask(id)].results =
                        [filled |-> TRUE,
                         total_images_processed |-> t_local[id].total_images,
                         scroll_iterations_completed |-> t_local[id].loop,
                         debug_enabled |-> t_debug[id]]]
    /\ clock' = [clock EXCEPT ![id] = @ + 1]
    /\ t_pc' = [t_pc EXCEPT ![id] = "finally"]
    /\ UNCHANGED <<active_tasks, h_pc, t_debug, t_local, driver_lock,
                   driver_manager, driver, scraper, debug_mode, response>>
    /\ UNCHANGED <<fsVars, dviVars, engineVars, cancel_seen, s_pc, built, lockVars>>

\* except Exception as e: with task_lock: task.status = FAILED;
\* task.completed_at = ...; task.error_message = str(e)
TaskExcept(id) ==
    /\ t_pc[id] = "except"
    /\ tasks' = [tasks EXCEPT ![OwnTask(id)].status = FAILED,
                              ![OwnTask(id)].completed_at = clock[id] + 1,
                              ![OwnTask(id)].error_message = t_local[id].exc]
    /\ clock' = [clock EXCEPT ![id] = @ + 1]
    /\ t_pc' = [t_pc EXCEPT ![id] = "finally"]
    /\ UNCHANGED <<active_tasks, h_pc, t_debug, t_local, driver_lock,
                   driver_manager, driver, scraper, debug_mode, response>>
    /\ UNCHANGED <<fsVars, dviVars, engineVars, cancel_seen, s_pc, built, lockVars>>

\* finally: with task_lock: active_tasks.pop(task_id, None); the thread ends
\* and its frame (arguments and locals) is gone.
TaskFinally(id) ==
    /\ t_pc[id] = "finally"
    /\ active_tasks' = active_tasks \ {id}
    /\ t_pc' = [t_pc EXCEPT ![id] = "done"]
    /\ t_local' = [t_local EXCEPT ![id] = NoLocals]
    /\ t_debug' = [t_debug EXCEPT ![id] = FALSE]
    /\ UNCHANGED <<tasks, h_pc, clock, driver_lock,
                   driver_manager, driver, scraper, debug_mode, response>>
    /\ UNCHANGED <<fsVars, dviVars, engineVars, cancel_seen, s_pc, built, lockVars>>

\* POST /tasks/<task_id>/cancel
AcceptsAnyStatus(status) == FALSE

AlreadyFinished(status) == status \in Finished

CancelRequest(id) ==
    /\ IF id \notin DOMAIN tasks
       THEN /\ response' = [id |-> id, code |-> 404]
            /\ UNCHANGED <<tasks, clock>>
       ELSE IF AlreadyFinished(tasks[id].status)
       THEN /\ response' = [id |-> id, code |-> 400]
            /\ UNCHANGED <<tasks, clock>>
       ELSE /\ tasks' = [tasks EXCEPT ![id].status = CANCELLED,
                                      ![id].completed_at = clock[id] + 1]
            /\ clock' = [clock EXCEPT ![id] = @ + 1]
            /\ response' = [id |-> id, code |-> 200]
    /\ UNCHANGED <<active_tasks, h_pc, t_pc, t_debug, t_local, driver_lock,
                   driver_manager, driver, scraper, debug_mode>>
    /\ UNCHANGED <<fsVars, dviVars, engineVars, s_pc, built, lockVars>>

\* The request, with the thread's position noted when it was accepted.
cancel_task(id) ==
    /\ CancelRequest(id)
    /\ IF id \in DOMAIN tasks /\ ~AlreadyFinished(tasks[id].status)
       THEN cancel_seen' = [cancel_seen EXCEPT ![id] =
                               [at |-> t_pc[id], loop |-> t_local[id].loop,
                                progress |-> tasks[id].progress]]
       ELSE UNCHANGED cancel_seen

run_download_task(id) ==
    \/ TaskLookup(id)
    \/ TaskSetRunning(id)
    \/ TaskEnableDebug(id)
    \/ TaskAcquireDriver(id)
    \/ TaskEnsureDriver(id)
    \/ TaskWhile(id)
    \/ TaskExtractReturned(id)
    \/ TaskExtractRaised(id)
    \/ TaskCheck(id)
    \/ TaskComplete(id)
    \/ TaskExcept(id)
    \/ TaskFinally(id)

\* No scroll_and_download run is in progress.
EngineOff ==
    /\ pc = "off"
    /\ max_scroll = 0
    /\ max_error_count = 1
    /\ loop = 0
    /\ previous_urls = {}
    /\ total_downloaded = 0
    /\ error_count = 0
    /\ last_img = 0
    /\ viewed_urls = {}
    /\ result = -1
    /\ exc = NoError
    /\ extract_calls = 0
    /\ round_calls = 0
    /\ failed_calls = 0
    /\ scrolls = 0

InitApp == InitFs /\ InitDvi /\ EngineOff /\ AppOff

NextApp ==
    \/ Download
    \/ Refresh
    \/ \E id \in TaskIds : StartThread(id)
    \/ \E id \in TaskIds : RegisterThread(id)
    \/ \E id \in TaskIds : run_download_task(id)
    \/ \E id \in TaskIds : cancel_task(id)
    \/ DviFindElements
    \/ DviNextItem
    \/ DviFetch

SpecApp == InitApp /\ [][NextApp]_vars

(***************************************************************************)
(* The service with concurrent tasks and GET /status (status()).           *)
(***************************************************************************)
\* with driver_lock: (entered by the /status handler when the lock is free)
StatusAcquireDriver ==
    /\ s_pc = "idle"
    /\ LockFree(driver_lock)
    /\ driver_lock' = StatusId
    /\ s_pc' = "auth"
    /\ UNCHANGED <<tasks, active_tasks, h_pc, t_pc, t_debug, t_local, clock,
                   driver_manager, driver, scraper, debug_mode, response,
                   cancel_seen, built>>
    /\ UNCHANGED <<fsVars, dviVars, engineVars, lockVars>>

\* is_authenticated = check_authentication(): ensure_driver(), then
\* session_manager.has_saved_session(); the with block ends and the handler
\* returns its response.
StatusCheckAuthentication ==
    /\ s_pc = "auth"
    /\ \E o \in EnsureDriverOutcomes : ensure_driver(o)
    /\ driver_lock' = 0
    /\ s_pc' = "idle"
    /\ UNCHANGED <<tasks, active_tasks, h_pc, t_pc, t_debug, t_local, clock,
                   debug_mode, response, cancel_seen>>
    /\ UNCHANGED <<fsVars, dviVars, engineVars, lockVars>>

status ==
    \/ StatusAcquireDriver
    \/ StatusCheckAuthentication

NextService ==
    \/ DownloadFor(ThreadIds, 1..MaxScroll)
    \/ RefreshFor(ThreadIds, 1..MaxScroll)
    \/ \E id \in ThreadIds : StartThread(id)
    \/ \E id \in ThreadIds : RegisterThread(id)
    \/ \E id \in ThreadIds : run_download_task(id)
    \/ status
    \/ DviFindElements
    \/ DviNextItem
    \/ DviFetch

SpecService == InitApp /\ [][NextService]_vars

(***************************************************************************)
(* The service under fair scheduling: every thread that can take a step    *)
(* eventually takes one, every browser call returns or raises, and a       *)
(* thread that finds driver_lock free again and again eventually gets it.  *)
(***************************************************************************)
\* The DOM snapshots and script results of the fair runs: an empty page or
\* one image, whose fetch returns a PNG or nothing.
LivePages == { <<>>, <<Element(TRUE, UrlA, StatusLink)>> }
LiveOutcomes ==
    { [kind |-> "result", data |-> [comma |-> TRUE, b64 |-> [format |-> "PNG", payload |-> 1]]],
      [kind |-> "empty", data |-> NoCommaUrl] }

LiveFindElements == FindElementsAmong(LivePages)
LiveFetch == FetchAmong(LiveOutcomes)

\* The clients of the fair runs either send cancel requests while one task
\* exists, or submit a second task: a further task is created only when no
\* cancel request was made, a cancel request only while there is at most
\* one task.
LiveDownload ==
    \E id \in ThreadIds :
        /\ id > 1 => response = NoResponse
        /\ DownloadFor({id}, {1})

LiveRefresh ==
    \E id \in ThreadIds :
        /\ id > 1 => response = NoResponse
        /\ RefreshFor({id}, {1})

LiveCancel(id) ==
    /\ Cardinality(DOMAIN tasks) <= 1
    /\ CancelRequest(id)
    /\ UNCHANGED cancel_seen

NextLive ==
    \/ LiveDownload
    \/ LiveRefresh
    \/ \E id \in ThreadIds : StartThread(id)
    \/ \E id \in ThreadIds : RegisterThread(id)
    \/ \E id \in ThreadIds : run_download_task(id)
    \/ \E id \in ThreadIds : LiveCancel(id)
    \/ status
    \/ LiveFindElements
    \/ DviNextItem
    \/ LiveFetch

\* Every started thread keeps running, every browser call of
\* download_visible_images and of /status ends, and driver_lock is granted
\* fairly.
FairLive ==
    /\ \A id \in ThreadIds :
          /\ WF_vars(StartThread(id))
          /\ WF_vars(run_download_task(id))
          /\ SF_vars(TaskAcquireDriver(id))
    /\ WF_vars(StatusCheckAuthentication)
    /\ WF_vars(LiveFindElements \/ DviNextItem \/ LiveFetch)

SpecLive == InitApp /\ [][NextLive]_vars /\ FairLive

(***************************************************************************)
(* The lock skeleton of app.py: what each handler and the task thread do   *)
(* with task_lock and driver_lock, statement by statement.  An instruction *)
(* is the kind of statement, its line in app.py, and the instructions that *)
(* can follow it (1 is a fresh call of the same function).                 *)
(***************************************************************************)
Ins(op, line, next) == [op |-> op, line |-> line, next |-> next]

RunDownloadTaskLocks ==
    << Ins("acquire_task", 126, {2}),
       Ins("registry_read", 127, {3}),
       Ins("release_task", 129, {4, 1}),
       Ins("acquire_task", 133, {5}),
       Ins("registry_write", 134, {6}),
       Ins("release_task", 135, {7}),
       Ins("read_fixed", 137, {8}),
       Ins("acquire_driver", 144, {9}),
       Ins("browser", 145, {10, 25}),
       Ins("read_fixed", 157, {11, 21}),
       Ins("acquire_task", 159, {12}),
       Ins("registry_read", 160, {13}),
       Ins("release_task", 162, {14, 29}),
       Ins("browser", 165, {15, 20}),
       Ins("acquire_task", 172, {16}),
       Ins("registry_write", 173, {17}),
       Ins("release_task", 177, {18}),
       Ins("local", 180, {19, 20, 21}),
       Ins("browser", 188, {20}),
       Ins("local", 198, {10}),
       Ins("release_driver", 200, {22}),
       Ins("acquire_task", 201, {23}),
       Ins("registry_write", 202, {24}),
       Ins("release_task", 210, {30}),
       Ins("release_driver", 146, {26}),
       Ins("acquire_task", 218, {27}),
       Ins("registry_write", 219, {28}),
       Ins("release_task", 221, {30}),
       Ins("release_driver", 162, {30}),
       Ins("acquire_task", 225, {31}),
       Ins("registry_write", 226, {32}),
       Ins("release_task", 226, {1}) >>

DownloadLocks ==
    << Ins("local", 261, {2}),
       Ins("acquire_task", 276, {3}),
       Ins("registry_write", 277, {4}),
       Ins("release_task", 277, {5}),
       Ins("local", 280, {6}),
       Ins("acquire_task", 285, {7}),
       Ins("registry_write", 286, {8}),
       Ins("release_task", 286, {1}) >>

RefreshLocks ==
    << Ins("local", 306, {2}),
       Ins("acquire_task", 322, {3}),
       Ins("registry_write", 323, {4}),
       Ins("release_task", 323, {5}),
       Ins("local", 326, {6}),
       Ins("acquire_task", 331, {7}),
       Ins("registry_write", 332, {8}),
       Ins("release_task", 332, {1}) >>

StatusLocks ==
    << Ins("acquire_driver", 234, {2}),
       Ins("browser", 235, {3}),
       Ins("release_driver", 235, {4}),
       Ins("filesystem", 241, {5}),
       Ins("registry_read", 242, {6}),
       Ins("registry_read", 243, {1}) >>

GetTasksLocks ==
    << Ins("acquire_task", 351, {2}),
       Ins("registry_read", 352, {3}),
       Ins("release_task", 352, {1}) >>

GetTaskLocks ==
    << Ins("acquire_task", 359, {2}),
       Ins("registry_read", 360, {3}),
       Ins("release_task", 363, {1}) >>

\* A cancel handler that would check the browser inside its task_lock block.
CancelTaskNested ==
    << Ins("acquire_task", 369, {2}),
       Ins("acquire_driver", 370, {3}),
       Ins("release_driver", 372, {4}),
       Ins("release_task", 372, {1}) >>

CancelTaskLocks ==
    << Ins("acquire_task", 369, {2}),
       Ins("registry_read", 370, {3, 4}),
       Ins("release_task", 372, {1}),
       Ins("registry_read", 374, {5, 6}),
       Ins("release_task", 379, {1}),
       Ins("registry_write", 381, {7}),
       Ins("release_task", 382, {1}) >>

Program(p) ==
    CASE p = "run_download_task" -> RunDownloadTaskLocks
      [] p = "run_download_task#2" -> RunDownloadTaskLocks
      [] p = "download" -> DownloadLocks
      [] p = "refresh" -> RefreshLocks
      [] p = "status" -> StatusLocks
      [] p = "get_tasks" -> GetTasksLocks
      [] p = "get_task" -> GetTaskLocks
      [] p = "cancel_task" -> CancelTaskLocks

\* The instruction the handler or thread p is about to execute.
AtIns(p) == Program(p)[l_pc[p]]

LockStep(p) ==
    /\ \E n \in AtIns(p).next : l_pc' = [l_pc EXCEPT ![p] = n]
    /\ UNCHANGED <<fsVars, dviVars, engineVars, svcVars>>

\* with task_lock: (entry)
AcquireTaskLock(p) ==
    /\ AtIns(p).op = "acquire_task"
    /\ task_lock = "free"
    /\ task_lock' = p
    /\ UNCHANGED l_driver_lock
    /\ LockStep(p)

\* with task_lock: (exit, by falling out of the block or by return)
ReleaseTaskLock(p) ==
    /\ AtIns(p).op = "release_task"
    /\ task_lock = p
    /\ task_lock' = "free"
    /\ UNCHANGED l_driver_lock
    /\ LockStep(p)

\* with driver_lock: (entry)
AcquireDriverLock(p) ==
    /\ AtIns(p).op = "acquire_driver"
    /\ l_driver_lock = "free"
    /\ l_driver_lock' = p
    /\ UNCHANGED task_lock
    /\ LockStep(p)

\* with driver_lock: (exit, by falling out, by return or by exception)
ReleaseDriverLock(p) ==
    /\ AtIns(p).op = "release_driver"
    /\ l_driver_lock = p
    /\ l_driver_lock' = "free"
    /\ UNCHANGED task_lock
    /\ LockStep(p)

RegistryOps == {"registry_read", "registry_write"}
OutsideOps == {"browser", "filesystem"}

\* Any other statement: a registry access, a browser or filesystem
\* operation, or local work.
Access(p) ==
    /\ AtIns(p).op \in RegistryOps \cup OutsideOps \cup {"read_fixed", "local"}
    /\ UNCHANGED <<task_lock, l_driver_lock>>
    /\ LockStep(p)

NextLocks ==
    \E p \in LockProcs :
        \/ AcquireTaskLock(p)
        \/ ReleaseTaskLock(p)
        \/ AcquireDriverLock(p)
        \/ ReleaseDriverLock(p)
        \/ Access(p)

SpecLocks == InitApp /\ [][NextLocks]_vars

\* C13: every read and every write of the task registry (tasks, active_tasks,
\* the mutable fields of a TaskInfo) by a handler or by the task thread
\* happens while that handler or thread holds task_lock.
C13_RegistryUnderTaskLock ==
    \A p \in LockProcs : AtIns(p).op \in RegistryOps => task_lock = p

(***************************************************************************)
(* SessionManager (session.py): any sequence of save_cookies,              *)
(* load_cookies, clear_session and has_saved_session calls.                *)
(***************************************************************************)
\* The size of what json.dump(cookies, f, indent=2) writes: "[]" for an
\* empty list, more for every record.
JsonSize(cookies) == 2 + Len(cookies)

\* self.cookies_file.exists()
FileExists(file) == file.exists

\* has_saved_session: exists() and stat().st_size > 0
has_saved_session(file) == file.exists /\ file.size > 0

\* cookie.pop("sameSite", None); cookie.pop("staleAt", None)
Unstripped(cookie) == cookie

Strip(cookie) == [cookie EXCEPT !.sameSite = Absent, !.staleAt = Absent]

SessionReturn(op, ret, why) == [op |-> op, ret |-> ret, why |-> why]

\* save_cookies(driver) when the browser holds cookies: get_cookies or
\* open("w") raise and the file stays as it was; the write raises after
\* open("w") truncated the file, which keeps what was written so far; or the
\* whole list is written.
save_cookies(cookies) ==
    /\ \/ \E why \in {"get_cookies_raised", "open_raised"} :
             /\ session_op' = SessionReturn("save_cookies", FALSE, why)
             /\ UNCHANGED cookies_file
       \/ \E written \in 0..(JsonSize(cookies) - 1) :
             /\ session_op' = SessionReturn("save_cookies", FALSE, "write_raised")
             /\ cookies_file' = [exists |-> TRUE, size |-> written,
                                 valid |-> FALSE, cookies |-> <<>>]
       \/ /\ session_op' = SessionReturn("save_cookies", TRUE, "ok")
          /\ cookies_file' = [exists |-> TRUE, size |-> JsonSize(cookies),
                              valid |-> TRUE, cookies |-> cookies]
    /\ UNCHANGED <<jar, replayed>>
    /\ UNCHANGED besideSession

\* The records of recs, from position i on, that add_cookie accepted.
RECURSIVE Accepted(_, _, _)
Accepted(recs, failing, i) ==
    IF i > Len(recs) THEN <<>>
    ELSE IF i \in failing THEN Accepted(recs, failing, i + 1)
    ELSE <<recs[i]>> \o Accepted(recs, failing, i + 1)

\* load_cookies(driver): failing are the positions whose add_cookie raises.
load_cookies(failing) ==
    /\ IF ~FileExists(cookies_file)
       THEN /\ session_op' = SessionReturn("load_cookies", FALSE, "no_file")
            /\ UNCHANGED <<jar, replayed>>
       ELSE \/ /\ session_op' = SessionReturn("load_cookies", FALSE, "get_raised")
               /\ UNCHANGED <<jar, replayed>>
            \/ /\ ~cookies_file.valid
               /\ session_op' = SessionReturn("load_cookies", FALSE, "json_raised")
               /\ UNCHANGED <<jar, replayed>>
            \/ /\ cookies_file.valid
               /\ failing \subseteq 1..Len(cookies_file.cookies)
               /\ LET cookies == cookies_file.cookies
                      stripped == [i \in 1..Len(cookies) |-> Strip(cookies[i])]
                  IN  /\ replayed' = stripped
                      /\ jar' = Accepted(stripped, failing, 1)
               /\ \/ session_op' = SessionReturn("load_cookies", TRUE, "ok")
                  \/ session_op' = SessionReturn("load_cookies", FALSE, "refresh_raised")
    /\ UNCHANGED cookies_file
    /\ UNCHANGED besideSession

\* clear_session: unlink the file if it exists; True unless unlink raises.
clear_session ==
    /\ IF FileExists(cookies_file)
       THEN \/ /\ cookies_file' = NoFile
               /\ session_op' = SessionReturn("clear_session", TRUE, "ok")
            \/ /\ session_op' = SessionReturn("clear_session", FALSE, "unlink_raised")
               /\ UNCHANGED cookies_file
       ELSE /\ session_op' = SessionReturn("clear_session", TRUE, "ok")
            /\ UNCHANGED cookies_file
    /\ UNCHANGED <<jar, replayed>>
    /\ UNCHANGED besideSession

HasSavedSession ==
    /\ session_op' = SessionReturn("has_saved_session",
                                   has_saved_session(cookies_file), "ok")
    /\ UNCHANGED <<cookies_file, jar, replayed>>
    /\ UNCHANGED besideSession

NextSession ==
    \/ \E cookies \in CookieLists : save_cookies(cookies)
    \/ \E failing \in SUBSET (1..MaxCookies) : load_cookies(failing)
    \/ clear_session
    \/ HasSavedSession

SpecSession == InitApp /\ [][NextSession]_vars

(***************************************************************************)
(* DebugCapture (debug.py): any sequence of its public methods, with       *)
(* config.debug_mode on or off, and any of their browser calls and file    *)
(* writes failing.                                                         *)
(***************************************************************************)
\* try: ... except Exception as e: logger.warning(...): whether an
\* exception raised in the body leaves the block.
Unguarded(raised) == raised

Guarded(raised) == FALSE

\* What a method did: the files it created, whether it called the driver,
\* whether an exception left it.
Effect(created, browser, escaped) ==
    [files |-> created, browser |-> browser, escaped |-> escaped]
NoEffect == Effect({}, FALSE, FALSE)

\* _capture_screenshot: save_screenshot, then the metadata file.
capture_screenshot(fail) ==
    Effect(CASE fail = "save_screenshot" -> {}
             [] fail = "open" -> {"png"}
             [] OTHER -> {"png", "meta"},
           TRUE,
           Guarded(fail # "none"))
ScreenshotFailures == {"none", "save_screenshot", "open", "write"}

\* _capture_html: page_source, then the HTML file.
capture_html(fail) ==
    Effect(IF fail \in {"page_source", "open"} THEN {} ELSE {"html"},
           TRUE,
           Guarded(fail # "none"))
HtmlFailures == {"none", "page_source", "open", "write"}

\* try: _capture_screenshot(...); _capture_html(...) except Exception: the
\* body of capture_step and of capture_error.  _capture_html is not reached
\* when an exception leaves _capture_screenshot.
capture_both(shot, html) ==
    LET first == capture_screenshot(shot)
        second == IF first.escaped THEN NoEffect ELSE capture_html(html)
    IN  Effect(first.files \cup second.files, TRUE,
               Guarded(first.escaped \/ second.escaped))

\* capture_element_info: the info file is opened, then the element is
\* looked up and described.
capture_element_info(fail) ==
    IF fail = "open"
    THEN Effect({}, FALSE, Guarded(TRUE))
    ELSE Effect({"element_info"}, TRUE, Guarded(fail # "none"))
ElementInfoFailures == {"none", "open", "write", "find_element"}

\* create_debug_summary: the summary file is opened and written.
create_debug_summary(fail) ==
    IF fail = "open"
    THEN Effect({}, FALSE, Guarded(TRUE))
    ELSE Effect({"summary"}, FALSE, Guarded(fail # "none"))
SummaryFailures == {"none", "open", "write"}

\* A public method was called: with debug mode off it returns at once.
DebugCall(op, effect, steps) ==
    /\ IF debug_mode
       THEN /\ step_counter + steps <= MaxDebugSteps
            /\ step_counter' = step_counter + steps
            /\ debug_files' = debug_files \cup effect.files
            /\ debug_browser' = (debug_browser \/ effect.browser)
            /\ debug_op' = [op |-> op,
                            ended |-> IF effect.escaped THEN "raised" ELSE "returned"]
       ELSE /\ debug_op' = [op |-> op, ended |-> "returned"]
            /\ UNCHANGED <<step_counter, debug_files, debug_browser>>
    /\ UNCHANGED besideDebug

capture_step ==
    \E shot \in ScreenshotFailures, html \in HtmlFailures :
        DebugCall("capture_step", capture_both(shot, html), 1)

capture_error ==
    \E shot \in ScreenshotFailures, html \in HtmlFailures :
        DebugCall("capture_error", capture_both(shot, html), 0)

CaptureElementInfo ==
    \E fail \in ElementInfoFailures :
        DebugCall("capture_element_info", capture_element_info(fail), 0)

CreateDebugSummary ==
    \E fail \in SummaryFailures :
        DebugCall("create_debug_summary", create_debug_summary(fail), 0)

log_action == DebugCall("log_action", NoEffect, 0)

\* config.debug_mode is False, or enable_debug() was called (--debug).
InitDebugRun ==
    /\ InitFs /\ InitDvi /\ EngineOff
    /\ tasks = <<>>
    /\ active_tasks = {}
    /\ h_pc = [i \in ThreadIds |-> "none"]
    /\ t_pc = [i \in ThreadIds |-> "unstarted"]
    /\ t_debug = [i \in ThreadIds |-> FALSE]
    /\ t_local = [i \in ThreadIds |-> NoLocals]
    /\ clock = [i \in ThreadIds |-> 0]
    /\ driver_lock = 0
    /\ driver_manager = FALSE
    /\ driver = FALSE
    /\ scraper = FALSE
    /\ debug_mode \in BOOLEAN
    /\ response = NoResponse
    /\ cancel_seen = [i \in ThreadIds |-> NotCancelled]
    /\ s_pc = "idle"
    /\ built = [manager |-> 0, driver |-> 0, scraper |-> 0]
    /\ l_pc = [p \in LockProcs |-> 1]
    /\ task_lock = "free"
    /\ l_driver_lock = "free"

NextDebug ==
    \/ capture_step
    \/ capture_error
    \/ CaptureElementInfo
    \/ CreateDebugSummary
    \/ log_action

SpecDebug == InitDebugRun /\ [][NextDebug]_vars

(***************************************************************************)
(* One run of the CLI commands login and download (cli.py), with           *)
(* TwitterAuth.login and ensure_likes_page (auth.py) and the engine the    *)
(* download command starts.                                                *)
(***************************************************************************)
Credentials == {"USERNAME", "PASSWORD"}

\* The cookies of a logged-in browser, and the file a successful
\* save_cookies leaves.
LoginCookies == <<Cookie("auth_token", "a", "Lax", Absent)>>
SavedFile ==
    [exists |-> TRUE, size |-> JsonSize(LoginCookies), valid |-> TRUE,
     cookies |-> LoginCookies]

Did(event) == cli_trace' = Append(cli_trace, event)
DidAll(events) == cli_trace' = cli_trace \o events

\* python main.py login [--no-save-session] | download [-s N] [--no-login]
CliInvoke ==
    /\ cli_pc = "none"
    /\ \E cmd \in {"login", "download"}, no_login, save_session \in BOOLEAN,
          scroll \in 0..MaxCliScroll :
          /\ cmd = "login" => (~no_login /\ scroll = 0)
          /\ cmd = "download" => save_session
          /\ cli_args' = [cmd |-> cmd, no_login |-> no_login,
                          save_session |-> save_session, max_scroll |-> scroll]
          /\ cli_pc' = IF cmd = "login" THEN "validate" ELSE "create_driver"
    /\ UNCHANGED <<env_missing, cli_driver, cli_trace, exit_code>>
    /\ UNCHANGED <<cookies_file, engineVars, besideCli>>

\* login: missing = config.validate(); if missing: ... sys.exit(1)
CliValidate ==
    /\ cli_pc = "validate"
    /\ IF env_missing # {}
       THEN /\ Did("missing_credentials")
            /\ exit_code' = 1
            /\ cli_pc' = "exited"
       ELSE /\ cli_pc' = "create_driver"
            /\ UNCHANGED <<cli_trace, exit_code>>
    /\ UNCHANGED <<cli_args, env_missing, cli_driver>>
    /\ UNCHANGED <<cookies_file, engineVars, besideCli>>

\* if not auth.login(): / if not auth.ensure_likes_page(): ... sys.exit(1)
NoGate(ok) == TRUE

Gate(ok) == ok

\* driver = driver_manager.create_driver(): the WebDriver is constructed
\* and configured; or an exception, before or after self.driver was set,
\* goes to "except Exception" (sys.exit(1)) and to the finally block.
CliCreateDriver ==
    /\ cli_pc = "create_driver"
    /\ \/ /\ cli_driver' = "live"
          /\ Did("create_driver")
          /\ cli_pc' = IF cli_args.cmd = "download" /\ cli_args.no_login
                       THEN "scrape" ELSE "login"
          /\ UNCHANGED exit_code
       \/ /\ cli_driver' = "live"
          /\ Did("create_driver")
          /\ exit_code' = 1
          /\ cli_pc' = "finally"
       \/ /\ exit_code' = 1
          /\ cli_pc' = "finally"
          /\ UNCHANGED <<cli_driver, cli_trace>>
    /\ UNCHANGED <<cli_args, env_missing>>
    /\ UNCHANGED <<cookies_file, engineVars, besideCli>>

\* try_restore_session: nothing without a saved session; else load_cookies
\* (which navigates) and, when it returned True, is_logged_in (which
\* navigates too).
RestoreOutcomes(file) ==
    IF ~has_saved_session(file)
    THEN { [events |-> <<>>, ok |-> FALSE] }
    ELSE { [events |-> <<"navigate">>, ok |-> FALSE],
           [events |-> <<"navigate", "navigate">>, ok |-> FALSE],
           [events |-> <<"navigate", "navigate">>, ok |-> TRUE] }

\* _fresh_login: the credentials are validated, then the login pages are
\* driven; save says whether save_cookies was called and wrote the file
\* (its return value is not looked at).
FreshOutcomes(missing, save_session) ==
    IF missing # {}
    THEN { [events |-> <<"missing_credentials">>, ok |-> FALSE, save |-> FALSE] }
    ELSE { [events |-> <<"navigate">>, ok |-> FALSE, save |-> FALSE],
           [events |-> <<"navigate">>, ok |-> TRUE, save |-> FALSE] }
         \cup (IF save_session
               THEN { [events |-> <<"navigate">>, ok |-> TRUE, save |-> TRUE] }
               ELSE {})

\* auth.login(): the restored session, or else a fresh login.
LoginOutcomes(file, missing, save_session) ==
    { [events |-> r.events, ok |-> TRUE, save |-> FALSE] :
          r \in { x \in RestoreOutcomes(file) : x.ok } }
    \cup { [events |-> r.events \o f.events, ok |-> f.ok, save |-> f.save] :
          r \in { x \in RestoreOutcomes(file) : ~x.ok },
          f \in FreshOutcomes(missing, save_session) }

\* if auth.login(...): in login the command is done, in download the likes
\* page is next; else sys.exit(1).
CliLogin ==
    /\ cli_pc = "login"
    /\ \E o \in LoginOutcomes(cookies_file, env_missing, cli_args.save_session) :
          /\ DidAll(o.events \o <<IF o.ok THEN "login_true" ELSE "login_false">>)
          /\ cookies_file' = IF o.save THEN SavedFile ELSE cookies_file
          /\ IF Gate(o.ok)
             THEN IF cli_args.cmd = "login"
                  THEN exit_code' = 0 /\ cli_pc' = "finally"
                  ELSE cli_pc' = "likes" /\ UNCHANGED exit_code
             ELSE exit_code' = 1 /\ cli_pc' = "finally"
    /\ UNCHANGED <<cli_args, env_missing, cli_driver>>
    /\ UNCHANGED <<engineVars, besideCli>>

\* ensure_likes_page: True when the browser is on the likes page or got
\* there, False when reading the URL or the navigation raised.
LikesOutcomes ==
    { [events |-> <<>>, ok |-> TRUE],
      [events |-> <<"navigate">>, ok |-> TRUE],
      [events |-> <<>>, ok |-> FALSE],
      [events |-> <<"navigate">>, ok |-> FALSE] }

CliEnsureLikes ==
    /\ cli_pc = "likes"
    /\ \E o \in LikesOutcomes :
          /\ DidAll(o.events \o <<IF o.ok THEN "likes_true" ELSE "likes_false">>)
          /\ IF Gate(o.ok)
             THEN cli_pc' = "scrape" /\ UNCHANGED exit_code
             ELSE exit_code' = 1 /\ cli_pc' = "finally"
    /\ UNCHANGED <<cli_args, env_missing, cli_driver>>
    /\ UNCHANGED <<cookies_file, engineVars, besideCli>>

\* except KeyboardInterrupt: the user stops download during authentication.
CliInterrupt ==
    /\ cli_args.cmd = "download"
    /\ cli_pc \in {"login", "likes"}
    /\ Did("interrupted")
    /\ exit_code' = 0
    /\ cli_pc' = "finally"
    /\ UNCHANGED <<cli_args, env_missing, cli_driver>>
    /\ UNCHANGED <<cookies_file, engineVars, besideCli>>

\* total_images = scraper.scroll_and_download(max_scroll=max_scroll)
CliScrape ==
    /\ cli_pc = "scrape"
    /\ pc = "off"
    /\ Did("scroll_and_download")
    /\ cli_pc' = "scraping"
    /\ pc' = "start"
    /\ max_scroll' = cli_args.max_scroll
    /\ max_error_count' = DefaultRoundErrorCount
    /\ UNCHANGED <<loop, previous_urls, total_downloaded, error_count, last_img,
                   viewed_urls, result, exc, extract_calls, round_calls,
                   failed_calls, scrolls>>
    /\ UNCHANGED <<cli_args, env_missing, cli_driver, exit_code>>
    /\ UNCHANGED <<cookies_file, besideCli>>

\* scroll_and_download returned (the command ends normally) or raised
\* (except Exception: sys.exit(1)).
CliScrapeDone ==
    /\ cli_pc = "scraping"
    /\ \/ /\ pc \in {"completed", "exhausted"}
          /\ exit_code' = 0
       \/ /\ pc \in {"raised", "raised_get"}
          /\ exit_code' = 1
    /\ cli_pc' = "finally"
    /\ UNCHANGED <<cli_args, env_missing, cli_driver, cli_trace>>
    /\ UNCHANGED <<cookies_file, engineVars, besideCli>>

\* finally: driver_manager.quit_driver()
CliFinally ==
    /\ cli_pc = "finally"
    /\ IF cli_driver = "live"
       THEN cli_driver' = "quit" /\ Did("quit_driver")
       ELSE UNCHANGED <<cli_driver, cli_trace>>
    /\ cli_pc' = "exited"
    /\ UNCHANGED <<cli_args, env_missing, exit_code>>
    /\ UNCHANGED <<cookies_file, engineVars, besideCli>>

\* The environment has both credentials, one or none; a session was saved
\* by an earlier run or not.
InitCli ==
    /\ InitFiles /\ InitDebug /\ InitNames /\ AuthOff /\ InitDvi /\ EngineOff /\ AppOff
    /\ cookies_file \in {NoFile, SavedFile}
    /\ jar = <<>>
    /\ replayed = <<>>
    /\ session_op = NoCall
    /\ cli_pc = "none"
    /\ cli_args = NoArgs
    /\ env_missing \in SUBSET Credentials
    /\ cli_driver = "none"
    /\ cli_trace = <<>>
    /\ exit_code = -1

NextCli ==
    \/ CliInvoke
    \/ CliValidate
    \/ CliCreateDriver
    \/ CliLogin
    \/ CliEnsureLikes
    \/ CliInterrupt
    \/ CliScrape
    \/ CliScrapeDone
    \/ CliFinally
    \/ EngineStep
    \/ DviFindElements
    \/ DviNextItem
    \/ DviFetch

SpecCli == InitCli /\ [][NextCli]_vars

(***************************************************************************)
(* One call of TwitterAuth.login (auth.py), one step per decision.         *)
(***************************************************************************)
\* session/cookies.json after a save that died before its first byte.
EmptyFile == [exists |-> TRUE, size |-> 0, valid |-> FALSE, cookies |-> <<>>]

Auth(event) == auth_trace' = Append(auth_trace, event)

\* login returns: the frame is left with True or False.
AuthReturn(value) ==
    /\ auth_pc' = "returned"
    /\ auth_ret' = IF value THEN "true" ELSE "false"

\* for attempt in range(self.config.max_error_count)
ChecksOnceMore(count, max) == count <= max

MayCheck(count, max) == count < max

\* auth.login(save_session) with config.max_error_count read from
\* MAX_ERROR_COUNT.
AuthLogin ==
    /\ auth_pc = "off"
    /\ \E save_session \in BOOLEAN, max \in 0..MaxVerify :
          auth_cfg' = [save_session |-> save_session, max_error_count |-> max]
    /\ auth_pc' = "restore"
    /\ UNCHANGED <<attempt, auth_trace, auth_ret, cookies_file>>
    /\ UNCHANGED besideAuth

\* try_restore_session: if not has_saved_session(): return False
TryRestore ==
    /\ auth_pc = "restore"
    /\ IF has_saved_session(cookies_file)
       THEN auth_pc' = "load" /\ Auth("try_restore")
       ELSE auth_pc' = "validate" /\ auth_trace' = auth_trace \o <<"try_restore", "not_restored">>
    /\ UNCHANGED <<auth_cfg, attempt, auth_ret, cookies_file>>
    /\ UNCHANGED besideAuth

\* if self.session_manager.load_cookies(self.driver): load_cookies returns
\* False for a file that is no JSON list and when a browser call raised.
RestoreLoad ==
    /\ auth_pc = "load"
    /\ \/ /\ cookies_file.valid
          /\ auth_pc' = "check"
          /\ Auth("load_cookies")
       \/ /\ auth_pc' = "validate"
          /\ auth_trace' = auth_trace \o <<"load_cookies", "not_restored">>
    /\ UNCHANGED <<auth_cfg, attempt, auth_ret, cookies_file>>
    /\ UNCHANGED besideAuth

\* if self.is_logged_in(): return True (and login returns True); else the
\* warning, return False, and login goes on to _fresh_login.
RestoreCheck ==
    /\ auth_pc = "check"
    /\ \/ /\ auth_trace' = auth_trace \o <<"is_logged_in", "restored">>
          /\ AuthReturn(TRUE)
       \/ /\ auth_trace' = auth_trace \o <<"is_logged_in", "not_restored">>
          /\ auth_pc' = "validate"
          /\ UNCHANGED auth_ret
    /\ UNCHANGED <<auth_cfg, attempt, cookies_file>>
    /\ UNCHANGED besideAuth

\* _fresh_login: missing_creds = self.config.validate(); if missing_creds:
\* return False
FreshValidate ==
    /\ auth_pc = "validate"
    /\ IF env_missing # {}
       THEN /\ auth_trace' = auth_trace \o <<"fresh_login", "missing_credentials">>
            /\ AuthReturn(FALSE)
       ELSE /\ Auth("fresh_login")
            /\ auth_pc' = "drive"
            /\ UNCHANGED auth_ret
    /\ UNCHANGED <<auth_cfg, attempt, cookies_file>>
    /\ UNCHANGED besideAuth

\* driver.get(front_page), the sign-in button, _enter_username,
\* _enter_password and _handle_2fa: the first of them that raises or returns
\* False ends _fresh_login with False.
FreshDrive ==
    /\ auth_pc = "drive"
    /\ \/ \E failed \in {"get_raised", "username_false", "password_false", "2fa_false"} :
             /\ Auth(failed)
             /\ AuthReturn(FALSE)
       \/ /\ Auth("form_done")
          /\ auth_pc' = "verify"
          /\ UNCHANGED auth_ret
    /\ UNCHANGED <<auth_cfg, attempt, cookies_file>>
    /\ UNCHANGED besideAuth

\* One iteration of the _verify_login loop: a success URL returns True, a
\* login URL returns False, an unclear URL or an exception goes round again.
VerifyCheck ==
    /\ auth_pc = "verify"
    /\ MayCheck(attempt, auth_cfg.max_error_count)
    /\ attempt' = attempt + 1
    /\ \/ /\ auth_trace' = auth_trace \o <<"check", "verified">>
          /\ auth_pc' = "verified"
          /\ UNCHANGED auth_ret
       \/ /\ auth_trace' = auth_trace \o <<"check", "verify_false">>
          /\ AuthReturn(FALSE)
       \/ /\ Auth("check")
          /\ UNCHANGED <<auth_pc, auth_ret>>
    /\ UNCHANGED <<auth_cfg, cookies_file>>
    /\ UNCHANGED besideAuth

\* The range is used up: the error screenshot, return False.
VerifyGiveUp ==
    /\ auth_pc = "verify"
    /\ ~MayCheck(attempt, auth_cfg.max_error_count)
    /\ Auth("verify_false")
    /\ AuthReturn(FALSE)
    /\ UNCHANGED <<auth_cfg, attempt, cookies_file>>
    /\ UNCHANGED besideAuth

\* if save_session: self.session_manager.save_cookies(self.driver), whose
\* result is not looked at: the file is written, cut off, or left alone.
\* Then return True.
FreshSave ==
    /\ auth_pc = "verified"
    /\ IF auth_cfg.save_session
       THEN /\ Auth("save_cookies")
            /\ cookies_file' \in {SavedFile, EmptyFile, cookies_file}
       ELSE UNCHANGED <<auth_trace, cookies_file>>
    /\ AuthReturn(TRUE)
    /\ UNCHANGED <<auth_cfg, attempt>>
    /\ UNCHANGED besideAuth

\* The environment has both credentials, one or none; cookies.json is
\* missing, empty or holds a saved session.
InitLogin ==
    /\ InitFiles /\ InitDebug /\ InitNames /\ AuthOff /\ InitDvi /\ EngineOff /\ AppOff
    /\ cookies_file \in {NoFile, EmptyFile, SavedFile}
    /\ jar = <<>>
    /\ replayed = <<>>
    /\ session_op = NoCall
    /\ cli_pc = "none"
    /\ cli_args = NoArgs
    /\ env_missing \in SUBSET Credentials
    /\ cli_driver = "none"
    /\ cli_trace = <<>>
    /\ exit_code = -1

NextLogin ==
    \/ AuthLogin
    \/ TryRestore
    \/ RestoreLoad
    \/ RestoreCheck
    \/ FreshValidate
    \/ FreshDrive
    \/ VerifyCheck
    \/ VerifyGiveUp
    \/ FreshSave

SpecLogin == InitLogin /\ [][NextLogin]_vars

(***************************************************************************)
(* get_image_name alone: any sequence of calls, each with any ancestor     *)
(* link and any URL.                                                       *)
(***************************************************************************)
\* The ancestors an <img> can have: status links, a status link without a
\* trailing part, longer paths that are no status link, a short path, no
\* href, a lookup that raises.
LinkPool ==
    { StatusLink,
      Link("href", <<"", "bob", "status", "7", "video", "1">>),
      Link("href", <<"", "alice", "status", "42">>),
      Link("href", <<"", "i", "web", "status", "42">>),
      Link("href", <<"", "alice", "media">>),
      NoLink,
      Link("raises", <<>>) }

\* A src that urlparse rejects with ValueError (an unclosed bracket in the
\* host part).
BadUrl == Url("[", "jpg", "small")
UrlParseRaises(url) == url = BadUrl

\* self.get_image_name(img_element, url): the name built from the URL and
\* the ancestor link, or f"unknown_{int(time.time())}" when the outer try
\* caught an exception.  The clock may have advanced since the last call.
GetImageName(link, url) ==
    /\ name_calls < MaxNameCalls
    /\ name_calls' = name_calls + 1
    /\ \E tick \in {0, 1} : name_clock' = name_clock + tick
    /\ LET name == IF UrlParseRaises(url)
                   THEN <<"unknown", name_clock'>>
                   ELSE get_image_name(Element(TRUE, url, link), url)
       IN  name_seen' = name_seen \cup {[link |-> link, url |-> url, name |-> name]}
    /\ UNCHANGED besideNames

NextNames == \E link \in LinkPool, url \in Urls \cup {BadUrl} : GetImageName(link, url)

SpecNames == InitApp /\ [][NextNames]_vars

(***************************************************************************)
(* The codec adapter alone: any sequence of save_image_from_data_url       *)
(* calls, each with any identity and any data URL.                         *)
(***************************************************************************)
\* The identities download_visible_images derives for the pool's elements.
ImageNames ==
    { get_image_name(e, enhance_image_url(e.src)) : e \in { x \in ElementPool : x.has_src } }

\* self.save_image_from_data_url(img_name, data_url, output_path)
Persist(img_name, data_url) ==
    LET saved == save_image_from_data_url(files, img_name, data_url)
    IN  /\ persist_calls < MaxCalls
        /\ persist_calls' = persist_calls + 1
        /\ files' = saved.files
        /\ last_save' = [name |-> img_name, data |-> data_url]
        /\ save_out' = [ret |-> saved.ret, log |-> saved.log]
        /\ UNCHANGED <<probeVars, sideVars, dviVars, engineVars, appVars>>

InitPersist == InitFs /\ InitDvi /\ EngineOff /\ AppOff

NextPersist == \E img_name \in ImageNames, data_url \in DataUrls : Persist(img_name, data_url)

SpecPersist == InitPersist /\ [][NextPersist]_vars

\* The file a call with these arguments reads and writes.
OutputFile(call) == <<call.name, Lower(Decode(call.data).img.format)>>

\* The files of one identity, whatever their extension.
FilesOf(img_name) == { f \in DOMAIN files : f[1] = img_name }

(***************************************************************************)
(* C8: across any sequence of save_image_from_data_url calls, an existing  *)
(* file is replaced only by an image whose decoded payload is strictly     *)
(* larger than the stored one; with an equal or smaller payload the call   *)
(* writes nothing; so no stored payload ever decreases and no file         *)
(* disappears.                                                             *)
(***************************************************************************)
C8_MonotonicUpgrade ==
    [][ /\ \A f \in DOMAIN files :
              /\ f \in DOMAIN files'
              /\ files'[f].payload >= files[f].payload
        /\ (persist_calls' = persist_calls + 1 /\ OutputFile(last_save') \in DOMAIN files)
              => /\ (save_out'.log = "saved")
                      <=> (Decode(last_save'.data).ok
                           /\ Decode(last_save'.data).img.payload
                                > files[OutputFile(last_save')].payload)
                 /\ (save_out'.log # "saved") => files' = files
      ]_vars

\* A smaller image was persisted over a larger stored one and skipped, after
\* an earlier call had written that file.
C8_Witness ==
    /\ persist_calls >= 2
    /\ save_out.log = "exists"
    /\ OutputFile(last_save) \in DOMAIN files
    /\ files[OutputFile(last_save)].payload > Decode(last_save.data).img.payload

(***************************************************************************)
(* C9: persisting the same data URL a second time under the same identity  *)
(* writes nothing: the directory is unchanged, the call reports "already   *)
(* exists", and the identity still has its one file of that format.        *)
(***************************************************************************)
C9_PersistIdempotent ==
    [][ ( /\ persist_calls' = persist_calls + 1
          /\ persist_calls >= 1
          /\ last_save' = last_save
          /\ save_out.ret )
        => /\ files' = files
           /\ save_out' = [ret |-> TRUE, log |-> "exists"]
           /\ OutputFile(last_save) \in DOMAIN files'
           /\ (persist_calls = 1 => Cardinality(FilesOf(last_save.name)') = 1)
      ]_vars

\* The same image has been persisted twice in a row under one identity,
\* the first call having written the file.
C9_Witness ==
    /\ persist_calls = 2
    /\ save_out = [ret |-> TRUE, log |-> "exists"]
    /\ OutputFile(last_save) \in DOMAIN files
    /\ files[OutputFile(last_save)] = Decode(last_save.data).img
    /\ Cardinality(FilesOf(last_save.name)) = 1

(***************************************************************************)
(* Claims about scroll_and_download and download_visible_images, checked   *)
(* under Spec.                                                             *)
(***************************************************************************)
\* A round has been extracted and its result is about to be tested.
RoundExtracted == pc = "extract" /\ dvi_pc = "returned"

\* The src URLs of the elements of a page.
SrcUrls(page) == { page[i].src : i \in { j \in 1..Len(page) : page[j].has_src } }

\* The position of the last element with a src that is no thumbnail, 0 if none.
LastAnchor(page) ==
    LET cand == { i \in 1..Len(page) : page[i].has_src /\ ~IsThumbnail(page[i].src) }
    IN  IF cand = {} THEN 0 ELSE CHOOSE i \in cand : \A j \in cand : j <= i

\* Every fetch_image call logged for an element returned None.
AllFailed(log) == log # <<>> /\ \A k \in 1..Len(log) : ~log[k]

(***************************************************************************)
(* C1: when a successfully extracted round views only URLs of the          *)
(* preceding round's set (V a subset of P, P empty before the first        *)
(* round), the run returns the accumulated total at once: no scroll, no    *)
(* increment of the round counter, no further download_visible_images      *)
(* call, and nothing happens after the return.                             *)
(***************************************************************************)
C1_ExhaustionReturns ==
    [][ /\ (RoundExtracted /\ dvi_viewed \subseteq previous_urls)
              => /\ pc' = "exhausted"
                 /\ result' = total_downloaded
                 /\ total_downloaded' = total_downloaded
                 /\ loop' = loop
                 /\ scrolls' = scrolls
                 /\ extract_calls' = extract_calls
        /\ pc = "exhausted" => vars' = vars
      ]_vars

\* A run that downloaded in an earlier round has ended by exhaustion on a
\* round that viewed a non-empty subset of the preceding round's URLs.
C1_Witness ==
    /\ pc = "exhausted"
    /\ loop >= 1
    /\ viewed_urls # {}
    /\ viewed_urls \subseteq previous_urls
    /\ viewed_urls # previous_urls
    /\ result = total_downloaded
    /\ result >= 2

(***************************************************************************)
(* C2: a run in which no download_visible_images call raised and which did *)
(* not end by exhaustion (every round viewed a URL the preceding round had *)
(* not) ends by a normal return after exactly max_scroll extraction calls, *)
(* with the round counter at max_scroll; it never ends by an exception.    *)
(***************************************************************************)
C2_RoundCap ==
    /\ (pc \in {"completed", "raised"} /\ failed_calls = 0)
          => /\ pc = "completed"
             /\ extract_calls = max_scroll
             /\ loop = max_scroll
             /\ result = total_downloaded
    /\ (failed_calls = 0 /\ pc \notin {"start", "raised_get"}) => extract_calls <= max_scroll

\* A run with max_scroll = 2 completed after two rounds of new content.
C2_Witness ==
    /\ pc = "completed"
    /\ max_scroll = 2
    /\ failed_calls = 0
    /\ extract_calls = 2
    /\ total_downloaded >= 2

(***************************************************************************)
(* C3: inside download_visible_images an element whose every fetch_image   *)
(* call returned None got exactly max_error_count calls once the loop has  *)
(* left it, no element ever gets more, and the call still returns having   *)
(* gone through every element: its viewed set holds every src URL of the   *)
(* page and its anchor is the last non-thumbnail element.                  *)
(***************************************************************************)
C3_BoundedFetchRetry ==
    /\ dvi_pc \in {"item", "fetch", "returned"} =>
          \A i \in 1..Len(imgs) :
             /\ Len(fetch_log[i]) <= dvi_max
             /\ (AllFailed(fetch_log[i]) /\ (i < idx \/ dvi_pc = "returned"))
                   => Len(fetch_log[i]) = dvi_max
    /\ dvi_pc = "returned" =>
          /\ idx = Len(imgs) + 1
          /\ dvi_viewed = SrcUrls(imgs)
          /\ dvi_last = LastAnchor(imgs)

\* A call returned after abandoning its first element (two or more calls,
\* all None) and then fetching for the element after it.
C3_Witness ==
    /\ dvi_pc = "returned"
    /\ Len(imgs) = 2
    /\ dvi_max >= 2
    /\ AllFailed(fetch_log[1])
    /\ Len(fetch_log[1]) = dvi_max
    /\ fetch_log[2] # <<>>

(***************************************************************************)
(* C4: a round whose download_visible_images call raises on every attempt  *)
(* is attempted exactly max_error_count times; no failed attempt and no    *)
(* step between two attempts changes previous_urls, total_downloaded or    *)
(* the round counter; the last attempt's exception leaves the run, and     *)
(* nothing happens after it.                                               *)
(***************************************************************************)
C4_RoundRetryThenRaise ==
    [][ /\ (pc = "extract" /\ dvi_pc = "raised")
              => /\ IF round_calls = max_error_count
                    THEN pc' = "raised" /\ exc' = dvi_exc
                    ELSE pc' = "retry" /\ round_calls < max_error_count
                 /\ failed_calls' = failed_calls + 1
        /\ (pc \in {"retry", "extract"} /\ pc' \in {"retry", "extract", "raised"})
              => /\ previous_urls' = previous_urls
                 /\ total_downloaded' = total_downloaded
                 /\ loop' = loop
        /\ pc' = "raised" => round_calls' = max_error_count /\ exc' \in Errors
        /\ pc = "raised" => vars' = vars
      ]_vars

\* A run ended by re-raising the last attempt's exception after two failed
\* attempts of a round that followed a successful one, files being on disk.
C4_Witness ==
    /\ pc = "raised"
    /\ round_calls = 2
    /\ max_error_count = 2
    /\ loop = 1
    /\ total_downloaded >= 1
    /\ exc = "StaleElementReferenceException"
    /\ DOMAIN files # {}

CancelledBetweenRounds(id) ==
    \/ cancel_seen[id].at = "check"
    \/ cancel_seen[id].at = "while" /\ cancel_seen[id].loop >= 1

\* C5: when cancellation is signalled after round k completes and before
\* round k+1 starts, the task starts no further extraction round, its
\* progress stays what it was after round k, and it ends with status
\* CANCELLED.
C5_CancelBetweenRounds ==
    \A id \in DOMAIN tasks :
        CancelledBetweenRounds(id) =>
            /\ t_pc[id] # "extract"
            /\ tasks[id].progress = cancel_seen[id].progress
            /\ t_pc[id] = "done" => tasks[id].status = CANCELLED

\* The status changes the lifecycle allows in one step.
StatusStep(old, new) ==
    \/ new = old
    \/ old = PENDING /\ new \in {RUNNING, CANCELLED}
    \/ old = RUNNING /\ new \in Finished

\* C6: a task's status moves only forward along PENDING, RUNNING, final
\* status, and a final status (COMPLETED, FAILED, CANCELLED) is absorbing: no
\* step of the thread or of cancel_task changes it again.
C6_FinalStatusAbsorbing ==
    [][\A id \in DOMAIN tasks :
          StatusStep(tasks[id].status, tasks'[id].status)]_vars

\* C7: cancel_task on a task that is already COMPLETED, FAILED or CANCELLED
\* answers with an error and leaves every task record as it was; cancel_task
\* on an unknown id answers not found (404) and changes no task.
C7_CancelFinishedRejected ==
    [][\A id \in TaskIds :
          cancel_task(id) =>
              /\ (id \in DOMAIN tasks /\ tasks[id].status \in Finished) =>
                     /\ response'.id = id
                     /\ response'.code >= 400
                     /\ tasks' = tasks
              /\ id \notin DOMAIN tasks =>
                     /\ response' = [id |-> id, code |-> 404]
                     /\ tasks' = tasks]_vars

\* A completed task whose thread has ended was asked to cancel, and the
\* request was refused.
C7_Witness ==
    \E id \in DOMAIN tasks :
        /\ tasks[id].status = COMPLETED
        /\ t_pc[id] = "done"
        /\ response.id = id
        /\ response.code >= 400

(***************************************************************************)
(* Claims about the round state of scroll_and_download (Spec).             *)
(***************************************************************************)
\* C11: the total starts at 0 with previous_urls empty; every extraction
\* that returns a viewed set V with a URL outside previous_urls adds
\* |V \ previous_urls| to the total and makes previous_urls exactly V (not a
\* union with the older sets); an extraction that returns no such URL ends
\* the run, which returns the total reached so far.  So the returned total
\* is the sum of |V_i \ V_(i-1)| over the non-exhausted rounds.
C11_TotalIsSumOfNewUrls ==
    [][/\ (pc = "start" /\ pc' = "while") =>
              total_downloaded' = 0 /\ previous_urls' = {}
       /\ (pc = "extract" /\ dvi_pc = "returned") =>
              IF dvi_viewed \subseteq previous_urls
              THEN /\ pc' = "exhausted"
                   /\ result' = total_downloaded
              ELSE /\ total_downloaded' =
                         total_downloaded + Cardinality(dvi_viewed \ previous_urls)
                   /\ previous_urls' = dvi_viewed
                   /\ result' = result
       /\ ~(pc = "extract" /\ dvi_pc = "returned") /\ pc # "start" =>
              /\ total_downloaded' = total_downloaded
              /\ previous_urls' = previous_urls
       /\ pc' = "completed" => result' = total_downloaded']_vars

\* Two rounds saw the same two URLs: the run stopped in round 2 and returned 2.
C11_Witness ==
    /\ pc = "exhausted"
    /\ loop = 1
    /\ viewed_urls = previous_urls
    /\ Cardinality(previous_urls) = 2
    /\ result = 2

(***************************************************************************)
(* Claims about download_visible_images (Spec).                            *)
(***************************************************************************)
\* The URL carries one of the two thumbnail size markers.
HasThumbnailSize(url) == url.name = "240x240" \/ url.name = "360x360"

\* The loop of download_visible_images is past element i.
Processed(i) ==
    /\ dvi_pc \in {"item", "fetch", "returned"}
    /\ i \in 1..Len(imgs)
    /\ i < idx \/ dvi_pc = "returned"

\* The identity download_visible_images gives element i.
NameOf(i) == get_image_name(imgs[i], enhance_image_url(imgs[i].src))

C19_SavedNotRefetched ==
    (/\ dvi_pc = "fetch"
     /\ MayFetch(dvi_errors, dvi_max)
     /\ \A j \in 1..(idx - 1) : ~imgs[j].has_src \/ NameOf(j) # NameOf(idx)) =>
        { f \in DOMAIN files : f[1] = NameOf(idx) } = {}

\* C20: a fetch whose data fails to decode in save_image_from_data_url does
\* not leave download_visible_images in the state a successful save leaves
\* it in: the per-item logic counts an error, retries or raises.
C20_DecodeFailureObserved ==
    [][(dvi_pc = "fetch" /\ MayFetch(dvi_errors, dvi_max)) =>
          \A outcome \in ScriptOutcomes :
              LET img_data == fetch_image(outcome)
                  saved == save_image_from_data_url(files, NameOf(idx), img_data.data)
              IN  (/\ img_data.ok
                   /\ ~saved.ret
                   /\ fetch_log' = [fetch_log EXCEPT ![idx] = Append(@, TRUE)])
                  => ~(/\ dvi_pc' = "item"
                       /\ idx' = idx + 1
                       /\ dvi_errors' = dvi_errors
                       /\ dvi_exc' = dvi_exc)]_vars

(***************************************************************************)
(* Claims about the rounds of run_download_task (SpecApp).                 *)
(***************************************************************************)
\* C16: a task all of whose extraction rounds failed (one round at least
\* was run, none returned) and that was not cancelled does not complete:
\* the step that ends it sets FAILED and an error message.
C16_FailedRoundsFailTask ==
    [][\A id \in DOMAIN tasks :
          (/\ t_pc[id] = "complete"
           /\ t_pc'[id] # "complete"
           /\ t_local[id].loop >= 1
           /\ tasks[id].progress.scroll_iterations = 0
           /\ cancel_seen[id].at = "never") =>
              /\ tasks'[id].status = FAILED
              /\ tasks'[id].error_message # ""]_vars

\* C17: a round that viewed a URL that the preceding round's set does not
\* hold does not end the task by exhaustion: while a further round is left
\* (loop + 1 < max_scroll), the thread goes from the exhaustion test back to
\* the top of the loop with the round counter raised.
C17_NewUrlContinues ==
    [][\A id \in DOMAIN tasks :
          (/\ t_pc[id] = "check"
           /\ t_pc'[id] # "check"
           /\ ~(t_local[id].viewed_urls \subseteq t_local[id].preceding_urls)
           /\ t_local[id].loop + 1 < tasks[id].max_scroll) =>
              /\ t_pc'[id] = "while"
              /\ t_local'[id].loop = t_local[id].loop + 1]_vars

(***************************************************************************)
(* Claims about the concurrent service (SpecService).                      *)
(***************************************************************************)
\* The step is one of thread i: its position changes, or it holds
\* driver_lock and its download_visible_images call moves.
ThreadStep(i) ==
    \/ t_pc'[i] # t_pc[i]
    \/ driver_lock = i /\ dviVars' # dviVars

\* C12: no step of one task's thread changes another task's record (status,
\* progress, results, timestamps) or the other thread's round state
\* (previous_urls, round counter, image total).
C12_TaskIsolation ==
    [][\A i \in ThreadIds : \A j \in ThreadIds \ {i} :
          ThreadStep(i) =>
              /\ j \in DOMAIN tasks => tasks'[j] = tasks[j]
              /\ t_local'[j] = t_local[j]
              /\ t_pc'[j] = t_pc[j]]_vars

\* Task 2 overtook task 1: it has finished a round and ended while task 1,
\* with no round counted yet, is inside its first extraction.
C12_Witness ==
    /\ t_pc[1] = "extract"
    /\ t_pc[2] = "done"
    /\ tasks[1].progress.scroll_iterations = 0
    /\ tasks[2].progress.scroll_iterations = 1
    /\ tasks[2].status = COMPLETED

\* The positions of run_download_task inside "with driver_lock:".
BrowserPcs == {"ensure", "while", "extract", "check"}

\* C14: a thread that is at a browser interaction (driver creation,
\* navigation, extraction with its fetches, scroll) holds driver_lock, the
\* /status handler likewise, a running download_visible_images call belongs
\* to the lock holder, and so at most one thread is at a browser interaction.
C14_BrowserUnderDriverLock ==
    /\ \A id \in ThreadIds : t_pc[id] \in BrowserPcs => driver_lock = id
    /\ s_pc = "auth" => driver_lock = StatusId
    /\ dvi_pc # "idle" =>
          \E id \in ThreadIds : t_pc[id] = "extract" /\ driver_lock = id
    /\ Cardinality({ id \in ThreadIds : t_pc[id] \in BrowserPcs })
          + (IF s_pc = "auth" THEN 1 ELSE 0) <= 1

\* One thread is fetching while the other waits for driver_lock.
C14_Witness ==
    /\ t_pc[1] = "extract"
    /\ dvi_pc = "fetch"
    /\ t_pc[2] = "acquire"
    /\ driver_lock = 1

\* C15: over all ensure_driver calls of the task threads and of /status, at
\* most one DriverManager, one WebDriver and one TwitterImageScraper are ever
\* built: a later call finds them and builds nothing.
C15_OneBrowserSession ==
    /\ built.manager <= 1
    /\ built.driver <= 1
    /\ built.scraper <= 1
    /\ driver => built.driver = 1
    /\ scraper => driver /\ built.scraper = 1

\* Both tasks and a /status request went through ensure_driver, and one
\* browser session was built.
C15_Witness ==
    /\ t_pc[1] = "done"
    /\ t_pc[2] = "done"
    /\ s_pc = "auth"
    /\ tasks[1].status = COMPLETED
    /\ tasks[2].status = COMPLETED
    /\ built = [manager |-> 1, driver |-> 1, scraper |-> 1]

(***************************************************************************)
(* fetch_image and its caller (SpecFetch).                                 *)
(***************************************************************************)
\* C21: fetch_image returns the data URL when execute_script returned a
\* non-empty result and None when it returned nothing or raised (a
\* JavascriptException or any other exception); no exception of the script
\* leaves download_visible_images, and after a None the caller is still in
\* the retry loop of the same element with the error counted.
C21_FetchFailureIsNone ==
    fetch_seen # NoFetch =>
        /\ fetch_seen.outcome.kind = "result" =>
               fetch_seen.ret = [ok |-> TRUE, data |-> fetch_seen.outcome.data]
        /\ fetch_seen.outcome.kind \in {"empty", "JavascriptException", "Exception"} =>
               ~fetch_seen.ret.ok /\ fetch_seen.saved = NoOut
        /\ dvi_exc \in Errors \cup {NoError}
        /\ (dvi_pc = "fetch" /\ fetch_log[idx] # <<>>) =>
               /\ fetch_seen.item = idx
               /\ ~fetch_seen.ret.ok
               /\ dvi_errors = Len(fetch_log[idx])
               /\ dvi_errors >= 1

\* Every failure kind was seen to be retried: after a script exception the
\* element is fetched again and the second fetch returns data.
C21_Witness ==
    /\ fetch_seen.outcome.kind = "result"
    /\ fetch_seen.ret.ok
    /\ fetch_seen.call = extract_calls
    /\ dvi_pc = "item"
    /\ fetch_seen.item \in DOMAIN fetch_log
    /\ fetch_log[fetch_seen.item] = <<FALSE, TRUE>>

(***************************************************************************)
(* SessionManager (SpecSession).                                           *)
(***************************************************************************)
\* C22: has_saved_session returns true exactly when cookies.json exists and
\* is not empty; right after a save_cookies that returned True the file
\* exists and is not empty, right after a clear_session that returned True
\* there is no file, and clear_session called without a file returns True.
C22_SavedSessionIffNonEmptyFile ==
    [][ /\ session_op'.op = "has_saved_session" =>
              session_op'.ret = (cookies_file'.exists /\ cookies_file'.size > 0)
        /\ (session_op'.op = "save_cookies" /\ session_op'.ret) =>
              (cookies_file'.exists /\ cookies_file'.size > 0)
        /\ (session_op'.op = "clear_session" /\ session_op'.ret) =>
              ~cookies_file'.exists
        /\ (session_op'.op = "clear_session" /\ ~cookies_file.exists) =>
              session_op'.ret
      ]_vars

\* has_saved_session has answered false for a file that exists: the file
\* an interrupted save_cookies left empty.
C22_Witness ==
    /\ session_op = SessionReturn("has_saved_session", FALSE, "ok")
    /\ cookies_file.exists
    /\ cookies_file.size = 0

\* C23: a load_cookies that got past reading the file has passed to
\* add_cookie every record of the file, in file order, without its sameSite
\* and staleAt attributes and with its other attributes as saved; the
\* browser holds those whose add_cookie did not raise, and the load returns
\* True however many records were refused.
C23_ReplayStripsAndContinues ==
    [][ (session_op'.op = "load_cookies"
            /\ session_op'.why \in {"ok", "refresh_raised"}) =>
          LET saved == cookies_file.cookies IN
          /\ Len(replayed') = Len(saved)
          /\ \A i \in 1..Len(saved) :
                replayed'[i] = Cookie(saved[i].name, saved[i].value, Absent, Absent)
          /\ \E failing \in SUBSET (1..Len(saved)) :
                jar' = Accepted(replayed', failing, 1)
          /\ session_op'.why = "ok" => session_op'.ret
      ]_vars

\* The first of two records was refused, the second, saved with a staleAt
\* attribute, was still replayed, and the load returned True.
C23_Witness ==
    /\ session_op = SessionReturn("load_cookies", TRUE, "ok")
    /\ Len(cookies_file.cookies) = 2
    /\ cookies_file.cookies[2].staleAt # Absent
    /\ Len(replayed) = 2
    /\ jar = <<replayed[2]>>

(***************************************************************************)
(* DebugCapture (SpecDebug).                                               *)
(***************************************************************************)
\* C24: every public DebugCapture method returns normally, whichever of its
\* screenshot, page-source and file operations fails; and with debug mode
\* off a call leaves the step counter and the debug files as they were and
\* does not call the driver.
C24_DebugNeverRaises ==
    [][ debug_op' # debug_op =>
          /\ debug_op'.ended = "returned"
          /\ ~debug_mode =>
                /\ step_counter' = step_counter
                /\ debug_files' = debug_files
                /\ debug_browser' = debug_browser
      ]_vars

\* A capture_step whose screenshot failed (no png) has still written the
\* HTML source and returned.
C24_Witness ==
    /\ debug_mode
    /\ debug_op = [op |-> "capture_step", ended |-> "returned"]
    /\ step_counter = 1
    /\ debug_files = {"html"}

(***************************************************************************)
(* The CLI commands (SpecCli).                                             *)
(***************************************************************************)
\* The positions of an event in what the command did.
At(event) == { i \in 1..Len(cli_trace) : cli_trace[i] = event }

\* C25: in a download run without --no-login, scroll_and_download is started
\* only after auth.login() and then auth.ensure_likes_page() returned True;
\* once either returned False the engine is never started, no
\* download_visible_images call is made and the exit status is 1; and when
\* the command has ended the driver it created has been quit.
C25_AuthBeforeEngine ==
    (cli_args.cmd = "download" /\ ~cli_args.no_login) =>
        /\ (pc # "off" \/ extract_calls > 0 \/ At("scroll_and_download") # {}) =>
              \E i \in At("login_true"), j \in At("likes_true"),
                 k \in At("scroll_and_download") : i < j /\ j < k
        /\ (At("login_false") # {} \/ At("likes_false") # {}) =>
              /\ pc = "off"
              /\ extract_calls = 0
              /\ At("scroll_and_download") = {}
              /\ exit_code = 1
        /\ cli_pc = "exited" =>
              /\ cli_driver # "live"
              /\ At("create_driver") # {} => cli_driver = "quit"

\* A download run whose login succeeded and whose likes page failed has
\* ended with status 1 and a quit driver.
C25_Witness ==
    /\ cli_args.cmd = "download"
    /\ ~cli_args.no_login
    /\ cli_pc = "exited"
    /\ At("login_true") # {}
    /\ At("likes_false") # {}
    /\ exit_code = 1
    /\ cli_driver = "quit"

\* C26: whenever a command reports missing credentials, it has neither
\* created a driver nor navigated to a page before.
C26_MissingCredentialsFailFast ==
    \A i \in At("missing_credentials") :
        \A j \in 1..(i - 1) : cli_trace[j] \notin {"create_driver", "navigate"}

(***************************************************************************)
(* get_image_name (SpecNames).                                             *)
(***************************************************************************)
\* C27: get_image_name returns author_postId_imageId exactly when the
\* ancestor link's path is /author/status/postId/..., and the image id alone
\* in every other case, a failed ancestor lookup included; two calls with
\* the same URL and the same link return the same name.
C27_NameFromStatusLink ==
    /\ \A r \in name_seen :
          IF r.link.kind = "href" /\ HasStatusParts(r.link.path)
          THEN r.name = <<r.link.path[2], r.link.path[4], r.url.id>>
          ELSE r.name = <<r.url.id>>
    /\ \A r1, r2 \in name_seen :
          (r1.link = r2.link /\ r1.url = r2.url) => r1.name = r2.name

(***************************************************************************)
(* The status code of a refused cancel (SpecApp).                          *)
(***************************************************************************)
\* C28: POST /tasks/<id>/cancel for a task that is completed, failed or
\* cancelled is answered with status code 409 (conflict).
C28_CancelFinishedIsConflict ==
    [][\A id \in TaskIds :
          (cancel_task(id) /\ id \in DOMAIN tasks /\ tasks[id].status \in Finished)
              => response'.code = 409]_vars

(***************************************************************************)
(* The scroll anchor (SpecScroll).                                         *)
(***************************************************************************)
\* C29: download_visible_images returns as anchor the last element, in
\* document order, that has a src and is no thumbnail, none when there is no
\* such element, and viewed_urls holds only the src values present.  In
\* scroll_and_download a round without anchor scrolls nothing, a scroll that
\* raises does not end the run, and the round counter is incremented either
\* way.
C29_AnchorAndScroll ==
    /\ [](dvi_pc = "returned" =>
             /\ dvi_last = LastAnchor(imgs)
             /\ dvi_viewed = SrcUrls(imgs))
    /\ [][pc = "scroll" =>
             /\ loop' = loop + 1
             /\ pc' = "while"
             /\ exc' = NoError
             /\ last_img = 0 => (scrolls' = scrolls /\ scroll_seen'.outcome = "skipped")
             /\ last_img # 0 => (scrolls' = scrolls + 1
                                  /\ scroll_seen'.outcome \in {"scrolled", "raised"})
       ]_vars

\* A scroll to the anchor raised, the round counter went up and the run is
\* back at the head of its loop.
C29_Witness ==
    /\ scroll_seen.outcome = "raised"
    /\ scroll_seen.anchor # 0
    /\ pc = "while"
    /\ loop = scroll_seen.loop + 1
    /\ exc = NoError

(***************************************************************************)
(* The per-item retry loop after a successful fetch (SpecFetch).           *)
(***************************************************************************)
\* C30: in one download_visible_images pass, a fetch_image call that returned
\* data is the last one for its element and is followed by exactly one
\* save_image_from_data_url call; whether that call wrote the file, found a
\* duplicate or failed to decode, the pass goes on with the next element and
\* raises nothing.
C30_NoRetryAfterFetch ==
    /\ [](dvi_pc \in {"item", "fetch", "returned"} =>
             \A i \in 1..Len(imgs) :
                \A k \in 1..Len(fetch_log[i]) :
                   fetch_log[i][k] => k = Len(fetch_log[i]))
    /\ [][(dvi_pc = "fetch" /\ fetch_seen'.ret.ok /\ fetch_seen' # fetch_seen) =>
             /\ fetch_seen'.saves = 1
             /\ fetch_seen'.saved.log \in {"saved", "exists", "failed"}
             /\ idx' = idx + 1
             /\ dvi_pc' = "item"
             /\ dvi_exc' = NoError
       ]_vars

\* The data fetched for the first of two elements did not decode; the save
\* was made once and the pass is at the second element.
C30_Witness ==
    /\ fetch_seen.call = extract_calls
    /\ fetch_seen.item = 1
    /\ fetch_seen.ret.ok
    /\ fetch_seen.saved = [ret |-> FALSE, log |-> "failed"]
    /\ fetch_seen.saves = 1
    /\ dvi_pc = "item"
    /\ idx = 2
    /\ Len(imgs) = 2

(***************************************************************************)
(* TwitterAuth.login (SpecLogin).                                          *)
(***************************************************************************)
\* The position of the first occurrence of event in the call's trace, 0 when
\* it did not happen.
FirstAt(event) ==
    IF \E i \in 1..Len(auth_trace) : auth_trace[i] = event
    THEN CHOOSE i \in 1..Len(auth_trace) :
            /\ auth_trace[i] = event
            /\ \A j \in 1..(i - 1) : auth_trace[j] # event
    ELSE 0

Checks == Cardinality({i \in 1..Len(auth_trace) : auth_trace[i] = "check"})

\* C31: login tries to restore the saved session first and starts a fresh
\* login only after the restoration ended without a verified logged-in
\* state; the cookies are saved only after _verify_login succeeded and only
\* with save_session true; _verify_login makes at most max_error_count
\* checks and has returned False when they are used up without a success.
C31_RestoreThenFreshLogin ==
    /\ auth_trace # <<>> => auth_trace[1] = "try_restore"
    /\ FirstAt("restored") > 0 =>
          /\ FirstAt("fresh_login") = 0
          /\ auth_ret = "true"
    /\ FirstAt("fresh_login") > 0 =>
          /\ FirstAt("not_restored") > 0
          /\ FirstAt("not_restored") < FirstAt("fresh_login")
    /\ FirstAt("save_cookies") > 0 =>
          /\ FirstAt("verified") > 0
          /\ FirstAt("verified") < FirstAt("save_cookies")
          /\ auth_cfg.save_session
    /\ Checks <= auth_cfg.max_error_count
    /\ (auth_pc = "returned" /\ FirstAt("form_done") > 0 /\ FirstAt("verified") = 0) =>
          /\ auth_ret = "false"
          /\ FirstAt("verify_false") > 0
          /\ FirstAt("save_cookies") = 0

\* A fresh login that followed a failed restoration used every check without
\* a clear URL and gave up.
C31_Witness ==
    /\ auth_pc = "returned"
    /\ auth_ret = "false"
    /\ FirstAt("is_logged_in") > 0
    /\ FirstAt("fresh_login") > 0
    /\ auth_cfg.max_error_count = MaxVerify
    /\ Checks = MaxVerify
    /\ auth_trace[Len(auth_trace)] = "verify_false"
    /\ auth_trace[Len(auth_trace) - 1] = "check"

(***************************************************************************)
(* The service under fair scheduling (SpecLive).                           *)
(***************************************************************************)
\* C32: every task that was created eventually has a thread that ended and
\* a status of COMPLETED, FAILED or CANCELLED; a thread waiting for
\* driver_lock eventually holds it; and a task's thread never begins more
\* than max_scroll rounds.
C32_TaskEventuallyFinished ==
    /\ \A id \in ThreadIds :
          (id \in DOMAIN tasks) ~>
              (t_pc[id] = "done" /\ tasks[id].status \in Finished)
    /\ \A id \in ThreadIds :
          (t_pc[id] = "acquire") ~> (driver_lock = id)
    /\ [](\A id \in ThreadIds :
             /\ t_local[id].loop <= (IF id \in DOMAIN tasks THEN tasks[id].max_scroll ELSE 0)
             /\ t_pc[id] = "extract" => t_local[id].loop < tasks[id].max_scroll)

\* The second task's thread waits for driver_lock while the first one holds
\* it inside a round.
C32_Witness ==
    /\ t_pc[2] = "acquire"
    /\ driver_lock = 1
    /\ t_pc[1] = "extract"

(***************************************************************************)
(* The registry of running threads (SpecApp).                              *)
(***************************************************************************)
\* C33: once the handler that created a task has returned and the task's
\* thread has ended, the task's id is not in active_tasks.
C33_NoEntryForEndedThread ==
    \A id \in TaskIds :
        (h_pc[id] = "returned" /\ t_pc[id] = "done") => id \notin active_tasks

(***************************************************************************)
(* Lock order (SpecLocks).                                                 *)
(***************************************************************************)
\* C34: no handler or thread requests driver_lock while it holds task_lock,
\* and in every reachable state some handler or thread can take a step; a
\* holder of task_lock can always take its next step.
C34_NoLockCycle ==
    /\ \A p \in LockProcs : AtIns(p).op = "acquire_driver" => task_lock # p
    /\ \A p \in LockProcs :
          task_lock = p => AtIns(p).op \in RegistryOps \cup {"release_task"}
    /\ ENABLED NextLocks

\* A task thread inside its driver_lock block waits for task_lock, which the
\* cancel handler holds, while the other task thread waits for driver_lock.
C34_Witness ==
    /\ l_driver_lock = "run_download_task"
    /\ AtIns("run_download_task").op = "acquire_task"
    /\ task_lock = "cancel_task"
    /\ AtIns("run_download_task#2").op = "acquire_driver"

(***************************************************************************)
(* The fields of a task record (SpecApp).                                  *)
(***************************************************************************)
\* C35: in every state of every task record, completed_at is set exactly
\* when the status is COMPLETED, FAILED or CANCELLED, started_at is set
\* when the status is RUNNING, and error_message is set only when the
\* status is FAILED.
C35_RecordFieldsFollowStatus ==
    \A id \in DOMAIN tasks :
        /\ tasks[id].completed_at # 0 <=> tasks[id].status \in Finished
        /\ tasks[id].status = RUNNING => tasks[id].started_at # 0
        /\ tasks[id].error_message # "" => tasks[id].status = FAILED

(***************************************************************************)
(* Rounds compared with their predecessor only (SpecRounds).               *)
(***************************************************************************)
\* The viewed set of the round before round i, empty before the first.
Preceding(log, i) == IF i = 1 THEN {} ELSE log[i - 1]

RECURSIVE CountedUpTo(_, _)
CountedUpTo(log, i) ==
    IF i = 0 THEN 0
    ELSE CountedUpTo(log, i - 1) + Cardinality(log[i] \ Preceding(log, i))

DistinctViewed == UNION { round_log[i] : i \in DOMAIN round_log }

\* Round i shows a URL that an earlier round showed and round i - 1 did not.
Reappears(i) ==
    \E u \in round_log[i] :
        /\ u \notin Preceding(round_log, i)
        /\ \E j \in 1..(i - 2) : u \in round_log[j]

\* C36: the total is at least the number of distinct URLs the rounds of
\* the run returned; every round counts the URLs its predecessor did not
\* show, so a URL that comes back after a round without it is counted
\* again, and the round that shows it does not end the run as exhausted.
C36_OnlyPrecedingRoundCompared ==
    /\ total_downloaded >= Cardinality(DistinctViewed)
    /\ total_downloaded = CountedUpTo(round_log, Len(round_log))
    /\ pc \in {"completed", "exhausted"} => result >= Cardinality(DistinctViewed)
    /\ \A i \in DOMAIN round_log :
          Reappears(i) => (i < Len(round_log) \/ pc # "exhausted")

\* A in round 1, B alone in round 2, A alone again in round 3: the run
\* completes with total 3 over 2 distinct URLs.
C36_Witness ==
    /\ round_log = << {UrlA}, {UrlB}, {UrlA} >>
    /\ pc = "completed"
    /\ result = 3
    /\ Cardinality(DistinctViewed) = 2

(***************************************************************************)
(* The debug switch (SpecService).                                         *)
(***************************************************************************)
\* C37: while the thread of a task started with debug=false runs (from its
\* debug test to its end), config.debug_mode is false, whatever the other
\* tasks were started with.
C37_DebugSettingIsPerTask ==
    \A id \in ThreadIds :
        (t_pc[id] \notin {"unstarted", "start", "set_running", "enable_debug", "done"}
            /\ ~t_debug[id])
        => ~debug_mode

(***************************************************************************)
(* An empty first round (Spec).                                            *)
(***************************************************************************)
\* C38: when the first extraction that returns shows no URL, the run ends
\* there as exhausted with total 0: nothing is scrolled and no further
\* extraction is made, whatever max_scroll >= 1 is; with max_scroll = 0 no
\* extraction is made at all and the run returns 0.
C38_EmptyFirstRound ==
    /\ [][(pc = "extract" /\ dvi_pc = "returned" /\ loop = 0 /\ dvi_viewed = {})
             => (pc' = "exhausted" /\ result' = 0 /\ scrolls' = 0 /\ loop' = 0)]_vars
    /\ [][pc = "exhausted"
             => (pc' = "exhausted" /\ extract_calls' = extract_calls
                 /\ scrolls' = scrolls /\ result' = result)]_vars
    /\ [](max_scroll = 0 =>
             /\ extract_calls = 0
             /\ scrolls = 0
             /\ pc \in {"start", "while", "completed", "raised_get"}
             /\ pc = "completed" => result = 0)

\* With max_scroll at its largest, the first attempt of round 1 raised and
\* the second returned an empty viewed set: the run is over with total 0.
C38_Witness ==
    /\ pc = "exhausted"
    /\ max_scroll = MaxScroll
    /\ loop = 0
    /\ viewed_urls = {}
    /\ failed_calls = 1
    /\ extract_calls = 2
    /\ result = 0
    /\ scrolls = 0

(***************************************************************************)
(* Termination of scroll_and_download (SpecTerm).                          *)
(***************************************************************************)
\* C39: every run of scroll_and_download ends, by returning or by raising;
\* it begins at most max_scroll rounds, calls download_visible_images at
\* most max_error_count times in a round, and a call fetches an element at
\* most max_error_count times.
C39_Terminates ==
    /\ <>(pc \in {"completed", "exhausted", "raised", "raised_get"})
    /\ [](/\ loop <= max_scroll
          /\ pc \in {"retry", "extract", "scroll"} => loop < max_scroll
          /\ round_calls <= max_error_count
          /\ \A i \in DOMAIN fetch_log : Len(fetch_log[i]) <= dvi_max)

\* A run of the largest max_scroll and max_error_count that retried a round
\* and an element as often as it may, and completed.
C39_Witness ==
    /\ pc = "completed"
    /\ max_scroll = MaxScroll
    /\ loop = MaxScroll
    /\ max_error_count = MaxErr
    /\ round_calls = MaxErr
    /\ failed_calls >= MaxErr - 1


(***************************************************************************)
(* The two programs that write the output directory: the command line run  *)
(* of scroll_and_download (pc starts at "start") and the HTTP service with *)
(* its download tasks (pc stays "off").                                    *)
(***************************************************************************)
InitWork == Init \/ InitApp

NextWork ==
    \/ EngineStep
    \/ pc = "off" /\ Download
    \/ pc = "off" /\ Refresh
    \/ \E id \in TaskIds : StartThread(id)
    \/ \E id \in TaskIds : RegisterThread(id)
    \/ \E id \in TaskIds : run_download_task(id)
    \/ \E id \in TaskIds : pc = "off" /\ cancel_task(id)
    \/ DviFindElements
    \/ DviNextItem
    \/ DviFetch

SpecWork == InitWork /\ [][NextWork]_vars

\* C40: work is never rolled back and progress never goes backwards: no step
\* of a download task removes a file of the output directory or replaces it
\* with a smaller image, also in a run that later fails or is cancelled,
\* and no step lowers a task's progress.images_processed or
\* progress.scroll_iterations.
KeepsFiles ==
    \A f \in DOMAIN files :
        /\ f \in DOMAIN files'
        /\ files'[f].payload >= files[f].payload

KeepsProgress ==
    \A id \in DOMAIN tasks :
        /\ id \in DOMAIN tasks'
        /\ tasks'[id].progress.images_processed >= tasks[id].progress.images_processed
        /\ tasks'[id].progress.scroll_iterations >= tasks[id].progress.scroll_iterations

C40_NothingRolledBack == [][KeepsFiles /\ KeepsProgress]_vars

\* A task was cancelled after a round that saved a file and counted an
\* image: the file is in place and the progress is kept.
C40_Witness ==
    /\ files # <<>>
    /\ \E id \in DOMAIN tasks :
          /\ tasks[id].status = CANCELLED
          /\ tasks[id].progress.images_processed >= 1
          /\ tasks[id].progress.scroll_iterations >= 1

====
